---- MODULE Spec2Model ----
(***************************************************************************)
(* A model of the scope-aware recursive-descent parser of ruruby-parse.    *)
(* The state is the Parser struct (scope stack, loop stack, flags,         *)
(* prev_loc, lexer cursor) together with the chain of active grammar       *)
(* procedures (ctl).  Tokens are drawn from small sets at the point where  *)
(* the code peeks or consumes them; a token's location is its index.       *)
(***************************************************************************)
EXTENDS Integers, Sequences, FiniteSets, TLC

\* ------------------------------------------------------------------ bounds
MaxPos == 9          \* number of tokens the lexer may hand out
MaxDepth == 3        \* depth of nested grammar procedures
MaxForVars == 2      \* loop variables of one `for`
MaxArgs == 3         \* parameters of one parameter list
MaxCode == 4         \* bytes of a source text handed to get_location

\* ------------------------------------------------------------ Option, Loc
None == <<>>
Some(v) == <<v>>
is_some(o) == o # None

Loc(a, b) == <<a, b>>
Min2(a, b) == IF a <= b THEN a ELSE b
Max2(a, b) == IF a >= b THEN a ELSE b
merge(l1, l2) == Loc(Min2(l1[1], l2[1]), Max2(l1[2], l2[2]))
At(p) == Loc(p, p)

Last(s) == s[Len(s)]
Front(s) == SubSeq(s, 1, Len(s) - 1)
Range(s) == {s[i] : i \in 1..Len(s)}

Names == {"x", "y"}

\* the names a parameter list takes, in the order it uses them
NameSeq == <<"x", "y", "z", "a", "b", "c", "d", "e", "f", "g">>

\* ---------------------------------------------------------- LvarCollector
\* table: names in declaration order; the slot id of a name is its index - 1
LvarCollector_new ==
    [table |-> <<>>, kw |-> <<>>, kwrest |-> None, block |-> None,
     delegate_param |-> None]

get_lvarid(table, id) ==
    IF id \in Range(table)
    THEN Some((CHOOSE i \in 1..Len(table) : table[i] = id) - 1)
    ELSE None

\* insert: the slot of the name, adding it when it is absent
lvar_insert(lvar, name) ==
    IF is_some(get_lvarid(lvar.table, name))
    THEN lvar
    ELSE [lvar EXCEPT !.table = Append(@, name)]

\* insert_new: None when the name is already in the table
insert_new(lvar, name) ==
    IF is_some(get_lvarid(lvar.table, name))
    THEN [res |-> None, lvar |-> lvar]
    ELSE [res |-> Some(Len(lvar.table)),
          lvar |-> [lvar EXCEPT !.table = Append(@, name)]]

insert_kwrest_param(lvar, name) ==
    LET r == insert_new(lvar, name)
    IN  IF r.res = None THEN r
        ELSE [res |-> r.res, lvar |-> [r.lvar EXCEPT !.kwrest = r.res]]

insert_block_param(lvar, name) ==
    LET r == insert_new(lvar, name)
    IN  IF r.res = None THEN r
        ELSE [res |-> r.res, lvar |-> [r.lvar EXCEPT !.block = r.res]]

insert_delegate_param(lvar) ==
    LET r == insert_new(lvar, "...")
    IN  IF r.res = None THEN r
        ELSE [res |-> r.res, lvar |-> [r.lvar EXCEPT !.delegate_param = r.res]]

\* -------------------------------------------------------------- LvarScope
new_method == [kind |-> "Method", lvar |-> LvarCollector_new]
new_eval(c) == [kind |-> "Eval", lvar |-> IF c = None THEN LvarCollector_new ELSE c[1]]
new_class(c) == [kind |-> "Class", lvar |-> IF c = None THEN LvarCollector_new ELSE c[1]]
new_block(c) == [kind |-> "Block", lvar |-> IF c = None THEN LvarCollector_new ELSE c[1]]
new_for == [kind |-> "For", lvar |-> LvarCollector_new]

\* ------------------------------------------------------------- DummyFrame
DummyFrame_outer == None
\* a frame that binds every name
DummyFrame_get_lvarid_any(id) == Some(0)

DummyFrame_get_lvarid(id) == None

\* ------------------------------------------------- Parser: pure functions
is_breakable_skip(ls) ==
    LET nb == {i \in 1..Len(ls) : ls[i] # "Block"}
    IN  nb # {} /\ ls[CHOOSE i \in nb : \A j \in nb : j <= i] # "Top"

is_breakable(ls) == Len(ls) > 0 => Last(ls) # "Top"

\* looks at the innermost frame only
check_delegate_nowalk(sc, i) ==
    i > 0 /\ sc[i].kind = "Method" /\ is_some(sc[i].lvar.delegate_param)

RECURSIVE check_delegate_from(_, _)
check_delegate_from(sc, i) ==
    IF i = 0 THEN FALSE
    ELSE IF sc[i].kind = "Method"
         THEN is_some(sc[i].lvar.delegate_param)
         ELSE check_delegate_from(sc, i - 1)

\* TRUE = Ok(()), FALSE = Err("Unexpected ...")
check_delegate(sc) == check_delegate_from(sc, Len(sc))

\* the walk over the extern context chain; DummyFrame has no outer frame
is_local_var_extern(ext, id, outer) ==
    IF ext = None THEN None
    ELSE IF is_some(DummyFrame_get_lvarid(id)) THEN Some(outer)
         ELSE None

\* every frame other than Block is crossed without counting
RECURSIVE is_local_var_through(_, _, _, _, _)
is_local_var_through(sc, ext, id, i, outer) ==
    IF i = 0 THEN is_local_var_extern(ext, id, outer)
    ELSE IF is_some(get_lvarid(sc[i].lvar.table, id)) THEN Some(outer)
         ELSE CASE sc[i].kind = "Block" -> is_local_var_through(sc, ext, id, i - 1, outer + 1)
                [] OTHER -> is_local_var_through(sc, ext, id, i - 1, outer)

RECURSIVE is_local_var_from(_, _, _, _, _)
is_local_var_from(sc, ext, id, i, outer) ==
    IF i = 0 THEN is_local_var_extern(ext, id, outer)
    ELSE IF is_some(get_lvarid(sc[i].lvar.table, id)) THEN Some(outer)
         ELSE CASE sc[i].kind = "Block" -> is_local_var_from(sc, ext, id, i - 1, outer + 1)
                [] sc[i].kind = "For" -> is_local_var_from(sc, ext, id, i - 1, outer)
                [] OTHER -> None

is_local_var(sc, ext, id) == is_local_var_from(sc, ext, id, Len(sc), 0)

\* index of the innermost frame whose kind is not For; 0 when there is none
RECURSIVE first_non_for(_, _)
first_non_for(sc, i) ==
    IF i = 0 THEN 0
    ELSE IF sc[i].kind = "For" THEN first_non_for(sc, i - 1) ELSE i

\* inserts into the innermost frame, a For frame included
add_local_var_if_new_inner(sc, ext, name) ==
    LET r == is_local_var(sc, ext, name)
    IN  IF is_some(r) THEN [scope |-> sc, ret |-> r[1], unreachable |-> FALSE]
        ELSE [scope |-> [sc EXCEPT ![Len(sc)].lvar = lvar_insert(@, name)],
              ret |-> 0, unreachable |-> FALSE]

\* inserts without asking is_local_var first
add_local_var_if_new_always(sc, ext, name) ==
    LET k == first_non_for(sc, Len(sc))
    IN  IF k = 0 THEN [scope |-> sc, ret |-> 0, unreachable |-> TRUE]
        ELSE [scope |-> [sc EXCEPT ![k].lvar = lvar_insert(@, name)],
              ret |-> 0, unreachable |-> FALSE]

\* returns the slot id of the name instead of the depth
add_local_var_if_new_slot(sc, ext, name) ==
    LET r == is_local_var(sc, ext, name)
        k == first_non_for(sc, Len(sc))
        b == CHOOSE i \in 1..Len(sc) :
                 /\ name \in Range(sc[i].lvar.table)
                 /\ \A j \in (i + 1)..Len(sc) : name \notin Range(sc[j].lvar.table)
    IN  IF is_some(r)
        THEN [scope |-> sc, ret |-> get_lvarid(sc[b].lvar.table, name)[1],
              unreachable |-> FALSE]
        ELSE IF k = 0 THEN [scope |-> sc, ret |-> 0, unreachable |-> TRUE]
             ELSE [scope |-> [sc EXCEPT ![k].lvar = lvar_insert(@, name)],
                   ret |-> Len(sc[k].lvar.table), unreachable |-> FALSE]

\* returns the new scope stack, the returned value, and whether
\* unreachable!() was hit
add_local_var_if_new(sc, ext, name) ==
    LET r == is_local_var(sc, ext, name)
        k == first_non_for(sc, Len(sc))
    IN  IF is_some(r) THEN [scope |-> sc, ret |-> r[1], unreachable |-> FALSE]
        ELSE IF k = 0 THEN [scope |-> sc, ret |-> 0, unreachable |-> TRUE]
             ELSE [scope |-> [sc EXCEPT ![k].lvar = lvar_insert(@, name)],
                   ret |-> 0, unreachable |-> FALSE]


\* ------------------------------------------------------------------ state
VARIABLES
    scope,                \* Parser.scope: Vec<LvarScope>, innermost last
    loop_stack,           \* Parser.loop_stack: Vec<LoopKind>
    extern_context,       \* Parser.extern_context: Option<DummyFrame>
    prev_loc,             \* Parser.prev_loc
    pos,                  \* lexer cursor: index of the next token
    suppress_do_block,    \* Parser.suppress_do_block
    suppress_mul_assign,  \* Parser.suppress_mul_assign
    ctl,                  \* active grammar procedures, innermost last
    status,               \* "running", or how parse() ended: "ok", "err", "panic"
    err,                  \* the ParseErr returned by parse()
    last,                 \* the grammar procedure that ran last, with its result
    id_table              \* an IdentifierTable, None before IdentifierTable::new

vars == <<scope, loop_stack, extern_context, prev_loc, pos, suppress_do_block,
          suppress_mul_assign, ctl, status, err, last, id_table>>

NoErr == [kind |-> "", msg |-> "", loc |-> Loc(0, 0)]

\* an activation record of a grammar procedure: its local variables, in kw
\* the location of the keyword that started the construct, and in loop0 /
\* scope0 the depth of the loop stack / scope stack when it was entered
Rec(fn, phase) ==
    [fn |-> fn, phase |-> phase, flag |-> FALSE, old |-> FALSE, loc |-> Loc(0, 0),
     kw |-> Loc(0, 0), vars |-> <<>>, term |-> "None", st |-> 0, args |-> <<>>,
     part |-> "", start |-> 0, then_ |-> Loc(0, 0), loop0 |-> 0, scope0 |-> 0]

Cur ==
    [scope |-> scope, loop_stack |-> loop_stack, prev_loc |-> prev_loc, pos |-> pos,
     suppress_do_block |-> suppress_do_block,
     suppress_mul_assign |-> suppress_mul_assign,
     ctl |-> ctl, status |-> status, err |-> err, last |-> last]

Apply(o) ==
    /\ scope' = o.scope
    /\ loop_stack' = o.loop_stack
    /\ prev_loc' = o.prev_loc
    /\ pos' = o.pos
    /\ suppress_do_block' = o.suppress_do_block
    /\ suppress_mul_assign' = o.suppress_mul_assign
    /\ ctl' = o.ctl
    /\ status' = o.status
    /\ err' = o.err
    /\ last' = o.last
    /\ UNCHANGED <<extern_context, id_table>>

\* Lexer::get_token through Parser::get: the token at the cursor is consumed
get(o) == [o EXCEPT !.prev_loc = At(o.pos), !.pos = o.pos + 1]

\* n tokens consumed one after the other
RECURSIVE get_n(_, _)
get_n(o, n) == IF n = 0 THEN o ELSE get_n(get(o), n - 1)

error_unexpected(loc, msg) == [kind |-> "SyntaxError", msg |-> msg, loc |-> loc]

error_eof(loc) == [kind |-> "UnexpectedEOF", msg |-> "", loc |-> loc]

\* a LexerErr produced by the lexer itself for the token at the cursor
error_lexer(loc) == [kind |-> "LexerError", msg |-> "", loc |-> loc]

\* Err(e) propagated by `?` up to parse(), which returns Err(ParseErr)
Fail(o, e) == [o EXCEPT !.status = "err", !.err = e]

\* unwrap() on Err / unreachable!(): the thread panics
Panic(o) == [o EXCEPT !.status = "panic"]

\* expect_reserved / expect_punct on the token at the cursor, tk says what
\* that token is: "ok" the expected one, "other" another token, "eof"
expect(o, tk, what) ==
    IF tk = "ok" THEN get(o)
    ELSE IF tk = "eof" THEN Fail(o, error_eof(At(o.pos)))
    ELSE Fail(get(o), error_unexpected(get(o).prev_loc, what))

ExpectToks == {"ok", "other", "eof"}

Top == Last(ctl)
Running == status = "running"
\* the innermost procedure is parsing a statement sequence / an expression
InBody == Top.phase = "body"
InExpr == Top.phase \in {"body", "cond", "iter"}
SetTop(o, r) == [o EXCEPT !.ctl = [o.ctl EXCEPT ![Len(o.ctl)] = r]]
PopCtl(o) == [o EXCEPT !.ctl = Front(o.ctl)]
PushCtl(o, r) == [o EXCEPT !.ctl = Append(o.ctl, r)]

\* --------------------------------------------------------------- Init
Contexts == {None, Some([LvarCollector_new EXCEPT !.table = <<"x">>])}

\* parse_program: Eval frame, no extern context.  The record of the
\* top-level procedure keeps in vars the names of the collector it was given.
InitProgram ==
    /\ scope = <<new_eval(None)>>
    /\ extern_context = None
    /\ ctl = <<Rec("top", "body")>>

\* parse_program_binding: Block frame seeded with the caller's collector
InitBinding ==
    /\ \E c \in Contexts :
          /\ scope = <<new_block(c)>>
          /\ ctl = <<[Rec("top", "body") EXCEPT !.vars = scope[1].lvar.table]>>
    /\ extern_context \in {None, Some("DummyFrame")}

Init ==
    /\ InitProgram \/ InitBinding
    /\ loop_stack = <<"Top">>
    /\ prev_loc = Loc(0, 0)
    /\ pos = 0
    /\ suppress_do_block = FALSE
    /\ suppress_mul_assign = FALSE
    /\ status = "running"
    /\ err = NoErr
    /\ last = [op |-> "new"]
    /\ id_table = None


\* ------------------------------------------------ statements, expressions
\* COMP_STMT / expression parsing itself lives in expression.rs; the actions
\* below are the calls it makes into the procedures of parser.rs and
\* flow_control.rs.

\* `name = <value>`: the left-hand side is declared with add_local_var_if_new
Assign(name) ==
    /\ Running /\ InBody /\ pos + 3 <= MaxPos
    /\ LET o1 == get(Cur)
           r == add_local_var_if_new(o1.scope, extern_context, name)
           o2 == [o1 EXCEPT !.scope = r.scope,
                            !.last = [op |-> "add_local_var_if_new", name |-> name,
                                      found |-> is_local_var(scope, extern_context, name),
                                      ret |-> r.ret]]
       IN  Apply(IF r.unreachable THEN Panic(o2) ELSE get_n(o2, 2))

\* a bare identifier: is_local_var decides between variable and method call
Ident(name) ==
    /\ Running /\ InBody /\ pos + 1 <= MaxPos
    /\ LET o1 == get(Cur)
       IN  Apply([o1 EXCEPT !.last = [op |-> "is_local_var", name |-> name,
                                      ret |-> is_local_var(scope, extern_context, name)]])

\* Node::new_nil and Node::new_array (node.rs): the array literal spans from
\* the location it is given to its last element
new_nil(loc) == [kind |-> "Nil", loc |-> loc]
new_array(vec, loc) ==
    [kind |-> "Array", elems |-> vec,
     loc |-> IF vec = <<>> THEN loc ELSE merge(loc, Last(vec).loc)]

\* parse_arg (expression.rs): one argument expression, here a single token
parse_arg(o) == [o |-> get(o), val |-> [kind |-> "Arg", loc |-> At(o.pos)]]

\* what follows the keyword: a token that ends the statement, or one, two or
\* three comma-separated arguments
BreakVals == {"term", "if", "unless", "stmt_end", "one", "two", "three"}
BreakArgs(v) == CASE v = "one" -> 1 [] v = "two" -> 2 [] v = "three" -> 3 [] OTHER -> 0
BreakToks(v) == IF BreakArgs(v) = 0 THEN 0 ELSE 2 * BreakArgs(v) - 1

\* `while self.consume_punct_no_term(Punct::Comma)? { vec.push(parse_arg) }`
RECURSIVE break_more_args(_, _, _)
break_more_args(o, more, vec) ==
    IF more = 0 THEN [o |-> o, vec |-> vec]
    ELSE LET a == parse_arg(get(o))
         IN  break_more_args(a.o, more - 1, Append(vec, a.val))

\* stops after the second argument
parse_break_sub_pair(o, v) ==
    LET loc == o.prev_loc
    IN  IF BreakArgs(v) = 0 THEN [o |-> o, val |-> new_nil(loc), loc |-> loc]
        ELSE LET a == parse_arg(o)
                 ret_loc == a.val.loc
             IN  IF BreakArgs(v) = 1 THEN [o |-> a.o, val |-> a.val, loc |-> loc]
                 ELSE LET b == parse_arg(get(a.o))
                      IN  [o |-> b.o, val |-> new_array(<<a.val, b.val>>, ret_loc),
                           loc |-> loc]

\* parse_break_sub: the value after break / next / return.
\* v: the token peek_no_term finds, or the number of arguments
parse_break_sub(o, v) ==
    LET loc == o.prev_loc
    IN  IF BreakArgs(v) = 0 THEN [o |-> o, val |-> new_nil(loc), loc |-> loc]
        ELSE LET a == parse_arg(o)
                 ret_loc == a.val.loc
             IN  IF BreakArgs(v) = 1 THEN [o |-> a.o, val |-> a.val, loc |-> loc]
                 ELSE LET b == parse_arg(get(a.o))
                          r == break_more_args(b.o, BreakArgs(v) - 2, <<a.val, b.val>>)
                      IN  [o |-> r.o, val |-> new_array(r.vec, ret_loc), loc |-> loc]

\* parse_break (kw = "break") and parse_next (kw = "next"); the keyword has
\* just been consumed by the expression parser
parse_break_next(kw, v) ==
    /\ Running /\ InExpr /\ pos + 1 + BreakToks(v) <= MaxPos
    /\ LET o1 == get(Cur)
           h == [op |-> kw, inner |-> Last(loop_stack), kw_loc |-> At(pos), in |-> v]
       IN  IF ~is_breakable(o1.loop_stack)
           THEN Apply(Fail([o1 EXCEPT !.last = h],
                           [kind |-> "SyntaxError",
                            msg |-> IF kw = "break" THEN "Invalid break" ELSE "Invalid next",
                            loc |-> o1.prev_loc]))
           ELSE LET r == parse_break_sub(o1, v)
                IN  Apply([r.o EXCEPT !.last = h @@ [val |-> r.val, loc |-> r.loc]])

parse_break(v) == parse_break_next("break", v)
parse_next(v) == parse_break_next("next", v)

\* parse_return: no legality test
parse_return(v) ==
    /\ Running /\ InExpr /\ pos + 1 + BreakToks(v) <= MaxPos
    /\ LET o1 == get(Cur)
           r == parse_break_sub(o1, v)
       IN  Apply([r.o EXCEPT !.last = [op |-> "return", kw_loc |-> At(pos), in |-> v,
                                       val |-> r.val, loc |-> r.loc]])

\* a call `f(...)` that forwards the arguments: check_delegate runs once the
\* `...` token has been consumed
CallDelegate ==
    /\ Running /\ InBody /\ pos + 4 <= MaxPos
    /\ LET o1 == get_n(Cur, 3)
           h == [op |-> "check_delegate", at |-> At(pos + 2)]
       IN  IF check_delegate(o1.scope)
           THEN Apply([get(o1) EXCEPT !.last = h])
           ELSE Apply(Fail([o1 EXCEPT !.last = h],
                           error_unexpected(o1.prev_loc, "Unexpected ...")))

\* ------------------------------------------------------------- parse_while
\* the `while` / `until` keyword has been consumed; parse_while runs up to
\* its call of parse_expr
WhileEnter ==
    /\ Running /\ InBody /\ Len(ctl) < MaxDepth /\ pos + 1 <= MaxPos
    /\ LET o1 == get(Cur)
           r == [Rec("while", "cond") EXCEPT !.old = o1.suppress_do_block,
                                             !.loc = o1.prev_loc,
                                             !.loop0 = Len(loop_stack),
                                             !.scope0 = Len(scope)]
       IN  Apply([PushCtl(o1, r) EXCEPT !.suppress_do_block = TRUE,
                                        !.loop_stack = Append(@, "While"),
                                        !.last = [op |-> "while_enter"]])

\* parse_do: d is what follows the expression: a terminator, `do`, or
\* another token
parse_do(o, d) ==
    IF d = "term" THEN get(o)
    ELSE expect(o, IF d = "do" THEN "ok" ELSE d, "Expect Do")

DoToks == {"term", "do", "other"}

\* parse_expr has returned the condition; parse_while runs up to its call
\* of parse_comp_stmt
WhileCond(d) ==
    /\ Running /\ Top.fn = "while" /\ Top.phase = "cond" /\ pos + 2 <= MaxPos
    /\ LET o1 == [get(Cur) EXCEPT !.suppress_do_block = Top.old]
           o2 == parse_do(o1, d)
       IN  Apply(IF o2.status = "err" THEN [o2 EXCEPT !.last = [op |-> "while_cond"]]
                 ELSE [SetTop(o2, [Top EXCEPT !.phase = "body"])
                          EXCEPT !.last = [op |-> "while_cond"]])

\* parse_comp_stmt has returned the body; parse_while runs to its end
WhileExit(e) ==
    /\ Running /\ Top.fn = "while" /\ Top.phase = "body" /\ pos + 1 <= MaxPos
    /\ LET o1 == expect(Cur, e, "Expect End")
           h == [op |-> "parse_while", depth0 |-> Len(loop_stack) - 1,
                 kw_loc |-> Top.loc]
       IN  Apply(IF o1.status = "err" THEN [o1 EXCEPT !.last = h]
                 ELSE [PopCtl(o1) EXCEPT
                          !.loop_stack = Front(@),
                          !.last = h @@ [node |-> [kind |-> "While",
                                                   loc |-> merge(Top.loc, o1.prev_loc)]]])


\* ------------------------------------------------ parameter declaration
\* scope_mut().lvar.<insert>(..): r is what the insert returned
declared(o, r, loc) ==
    IF Len(o.scope) = 0 THEN Panic(o)
    ELSE IF r.res = None
         THEN Fail(o, error_unexpected(loc, "Duplicated argument name."))
         ELSE [o EXCEPT !.scope = [o.scope EXCEPT ![Len(o.scope)].lvar = r.lvar]]

scope_lvar(o) == IF Len(o.scope) = 0 THEN LvarCollector_new ELSE Last(o.scope).lvar

\* declares the name without looking at what insert_new returned
new_param_nocheck(o, name, loc) ==
    [o EXCEPT !.scope = [o.scope EXCEPT ![Len(o.scope)].lvar = lvar_insert(@, name)]]

new_param(o, name, loc) == declared(o, insert_new(scope_lvar(o), name), loc)

new_kwrest_param(o, name, loc) ==
    declared(o, insert_kwrest_param(scope_lvar(o), name), loc)

new_block_param(o, name, loc) ==
    declared(o, insert_block_param(scope_lvar(o), name), loc)

new_delegate_param(o, loc) == declared(o, insert_delegate_param(scope_lvar(o)), loc)

\* add_kw_param after new_param returned the slot of `name`
add_kw_param(o, name) ==
    IF o.status # "running" THEN o
    ELSE [o EXCEPT !.scope = [o.scope EXCEPT ![Len(o.scope)].lvar.kw =
                Append(@, get_lvarid(Last(o.scope).lvar.table, name)[1])]]

\* expect_ident on the token at the cursor
expect_ident(o, tk) == expect(o, tk, "Expect identifier.")

\* Parser::loc on a token the lexer rejects: peek_no_term() is Err and the
\* unwrap() panics, unless a token before it can be peeked (a line
\* terminator, or the caller has peeked this token already and returned its
\* LexerErr)
loc_unwrap(o, peekable, tp) ==
    IF peekable THEN Fail(o, error_lexer(At(tp))) ELSE Panic(o)

\* ------------------------------------------------- parse_destruct_param
\* d.nl: a line terminator precedes the first identifier; d.first: what the
\* first token is; d.names: the identifiers; d.end: what follows them:
\* "rparen" `)`, "comma_rparen" `,)`, "comma_lparen" `,` and a nested group
\* `(y,z)` before the `)`, "other" any other token
RECURSIVE destruct_rest(_, _, _)
destruct_rest(o, names, i) ==
    IF i > Len(names) \/ o.status # "running" THEN o
    ELSE LET o1 == get(o)                         \* the comma
             loc == At(o1.pos)
             o2 == new_param(get(o1), names[i], loc)
         IN  destruct_rest(o2, names, i + 1)

\* a group that is not closed is returned as it stands
parse_destruct_param_truncating(o, d) ==
    IF d.first = "lexerr" THEN loc_unwrap(o, d.nl, IF d.nl THEN o.pos + 1 ELSE o.pos)
    ELSE LET loc == At(o.pos)
             oa == IF d.nl THEN [o EXCEPT !.pos = @ + 1] ELSE o
             o1 == expect_ident(oa, IF d.first = "ident" THEN "ok" ELSE d.first)
         IN  IF o1.status # "running" THEN o1
             ELSE LET o3 == destruct_rest(new_param(o1, d.names[1], loc), d.names, 2)
                  IN  IF o3.status # "running" \/ d.end = "other" THEN o3
                      ELSE get_n(o3, IF d.end = "comma_rparen" THEN 2 ELSE 1)

parse_destruct_param(o, d) ==
    IF d.first = "lexerr" THEN loc_unwrap(o, d.nl, IF d.nl THEN o.pos + 1 ELSE o.pos)
    ELSE LET loc == At(o.pos)
             oa == IF d.nl THEN [o EXCEPT !.pos = @ + 1] ELSE o
             o1 == expect_ident(oa, IF d.first = "ident" THEN "ok" ELSE d.first)
         IN  IF o1.status # "running" THEN o1
             ELSE LET o2 == new_param(o1, d.names[1], loc)
                      o3 == destruct_rest(o2, d.names, 2)
                  IN  IF o3.status # "running" THEN o3
                      ELSE IF d.end = "comma_rparen" THEN get_n(o3, 2)
                      ELSE IF d.end = "comma_lparen"
                      THEN expect_ident(get(o3), "other")   \* `,` then `(`
                      ELSE expect(o3, IF d.end = "rparen" THEN "ok" ELSE d.end,
                                  "Expect RParen")

DestructInputs ==
    { d \in [nl : BOOLEAN, first : {"ident", "other", "lexerr"},
              names : {<<"x">>, <<"y">>, <<"x", "x">>},
              end : {"rparen", "comma_rparen", "comma_lparen", "other"}] :
        /\ d.first # "ident" => d.names = <<"x">> /\ d.end = "rparen"
        /\ d.end \in {"comma_rparen", "comma_lparen"} => d.names = <<"x">> /\ ~d.nl }


\* --------------------------------------------------- parse_formal_params
\* enum Kind, in its PartialOrd order
Required == 0
Optional == 1
Rest == 2
PostReq == 3
KeyWord == 4
KWRest == 5

\* One parameter of the list, from the token at the cursor (after `loc` was
\* taken) to the point where the loop looks for a comma.
\* in.tk: the first token; in.sub: what follows `&`, `*`, `**`;
\* in.form: for an identifier, "opt" (`=` follows), "kw" (`:` follows),
\* "req"; in.dflt: a keyword parameter has a default expression.
\* Result: the parser state, the Kind state, the list, and whether the loop
\* is left by `break`.
Res(o, st, args, brk) == [o |-> o, st |-> st, args |-> args, brk |-> brk]

delegate_allowed_always(st) == TRUE

delegate_allowed(st) == ~(st > Required)

next_state_optional(st) ==
    IF st = Required THEN Some(Optional)
    ELSE IF st = Optional THEN Some(Optional) ELSE None

next_state_rest(st) == IF st >= Rest THEN None ELSE Some(Rest)

next_state_kwrest(st) == IF st >= KWRest THEN None ELSE Some(KWRest)

next_state_keyword(st) == IF st = KWRest THEN None ELSE Some(KeyWord)

next_state_required_any(st) == IF st = Required THEN Some(Required) ELSE Some(PostReq)

next_state_required(st) ==
    IF st = Required THEN Some(Required)
    ELSE IF st \in {PostReq, Optional, Rest} THEN Some(PostReq) ELSE None

\* the group is treated as a required parameter: the ordering state is
\* tested and moved
parse_param_destruct_ordered(o, st, args, in) ==
    LET o0 == get(o)
        ns == next_state_required(st)
    IN  IF ns = None
        THEN Res(Fail(o0, error_unexpected(o0.prev_loc,
                 "Required parameter is not allowed in ths position.")),
                 st, args, FALSE)
        ELSE Res(parse_destruct_param(o0, in.d), ns[1], Append(args, "destruct"), FALSE)

\* `if self.consume_punct(Punct::LParen)? { args.push(parse_destruct_param) }`:
\* the ordering state is neither read nor written
parse_param_destruct(o, st, args, in) ==
    LET o1 == parse_destruct_param(get(o), in.d)
    IN  Res(o1, st, Append(args, "destruct"), FALSE)

parse_param(o, st, args, loc0, in) ==
    CASE in.tk = "lparen" -> parse_param_destruct(o, st, args, in)
      [] in.tk = "range3" ->
            LET o1 == get(o)
            IN  IF ~delegate_allowed(st)
                THEN Res(Fail(o1, error_unexpected(loc0,
                         "parameter delegate is not allowed in ths position.")),
                         st, args, FALSE)
                ELSE Res(new_delegate_param(o1, loc0), st, Append(args, "delegate"), TRUE)
      [] in.tk = "bitand" ->
            LET o1 == expect_ident(get(o), in.sub)
                loc == merge(loc0, o1.prev_loc)
            IN  IF o1.status # "running" THEN Res(o1, st, args, FALSE)
                ELSE Res(new_block_param(o1, in.name, loc), st, Append(args, "block"), TRUE)
      [] in.tk = "mul" ->
            LET o1 == get(o)
                loc == merge(loc0, o1.prev_loc)
                ns == next_state_rest(st)
            IN  IF ns = None
                THEN Res(Fail(o1, error_unexpected(loc,
                         "Rest parameter is not allowed in ths position.")),
                         st, args, FALSE)
                ELSE IF in.sub = "ok"
                     THEN LET o2 == get(o1)
                          IN  Res(new_param(o2, in.name, o2.prev_loc), ns[1],
                                  Append(args, "rest"), FALSE)
                     ELSE Res(o1, ns[1], Append(args, "rest_discard"), FALSE)
      [] in.tk = "dmul" ->
            LET o1 == expect_ident(get(o), in.sub)
                loc == merge(loc0, o1.prev_loc)
                ns == next_state_kwrest(st)
            IN  IF o1.status # "running" THEN Res(o1, st, args, FALSE)
                ELSE IF ns = None
                THEN Res(Fail(o1, error_unexpected(loc,
                         "Keyword rest parameter is not allowed in ths position.")),
                         st, args, FALSE)
                ELSE Res(new_kwrest_param(o1, in.name, o1.prev_loc), ns[1],
                         Append(args, "kwrest"), FALSE)
      [] in.tk \in {"other", "eof"} -> Res(expect_ident(o, in.tk), st, args, FALSE)
      [] in.tk = "ident" /\ in.form = "opt" ->
            LET o1 == get_n(o, 3)          \* identifier, `=`, default value
                loc == merge(loc0, o1.prev_loc)
                ns == next_state_optional(st)
            IN  IF ns = None
                THEN Res(Fail(o1, error_unexpected(loc,
                         "Optional parameter is not allowed in ths position.")),
                         st, args, FALSE)
                ELSE Res(new_param(o1, in.name, loc), ns[1], Append(args, "optional"), FALSE)
      [] in.tk = "ident" /\ in.form = "kw" ->
            LET o1 == get_n(o, IF in.dflt THEN 3 ELSE 2)   \* identifier, `:`, [default]
                loc == merge(loc0, o1.prev_loc)
                ns == next_state_keyword(st)
            IN  IF ns = None
                THEN Res(Fail(o1, error_unexpected(loc,
                         "Keyword parameter is not allowed in ths position.")),
                         st, args, FALSE)
                ELSE Res(add_kw_param(new_param(o1, in.name, loc), in.name), ns[1],
                         Append(args, "keyword"), FALSE)
      [] in.tk = "ident" /\ in.form = "req" ->
            LET o1 == get(o)
                loc == o1.prev_loc
                ns == next_state_required(st)
            IN  IF ns = None
                THEN Res(Fail(o1, error_unexpected(loc,
                         "Required parameter is not allowed in ths position.")),
                         st, args, FALSE)
                ELSE Res(new_param(o1, in.name, loc), ns[1],
                         Append(args, IF st = Required THEN "req_param" ELSE "post"),
                         FALSE)

ParamToks == {"term", "lparen", "range3", "bitand", "mul", "dmul", "ident",
              "other", "eof", "lexerr"}

\* the tokens of one turn of the loop; fields a token kind does not read
\* are fixed so that one input stands for one token sequence
NoDestruct == [nl |-> FALSE, first |-> "ident", names |-> <<"x">>, end |-> "rparen"]

ParamInputs ==
    { in \in [nl : BOOLEAN, tk : ParamToks, name : Names, sub : ExpectToks,
              form : {"opt", "kw", "req"}, dflt : BOOLEAN,
              comma : BOOLEAN, close : ExpectToks, d : {NoDestruct}] :
        /\ in.tk \notin {"bitand", "mul", "dmul"} => in.sub = "ok"
        /\ in.tk # "ident" => in.form = "req"
        /\ ~(in.tk = "ident" /\ in.form = "kw") => ~in.dflt
        /\ in.tk \in {"term", "other", "eof", "lexerr", "lparen"} => in.name = "x"
        /\ in.tk \in {"mul"} /\ in.sub # "ok" => in.name = "x"
        /\ in.tk \in {"term", "other", "eof", "lexerr", "range3", "bitand"} => ~in.comma
        /\ in.comma \/ in.tk = "term" => in.close = "ok"
        /\ in.nl => in.tk \in {"ident", "lexerr"} }
    \cup
    { [nl |-> FALSE, tk |-> "lparen", name |-> "x", sub |-> "ok", form |-> "req",
       dflt |-> FALSE, comma |-> c, close |-> "ok", d |-> d] :
        c \in BOOLEAN, d \in DestructInputs }


\* parse_formal_params returns Ok(args) to parse_block / the method
\* definition, which goes on with the body
params_return(o, args) ==
    LET o1 == PopCtl(o)
        caller == Last(o1.ctl)
    IN  SetTop(o1, [caller EXCEPT !.phase = "body", !.args = args])

\* one turn of the loop of parse_formal_params, and, when the loop is left,
\* the code after it
ParamStep(in) ==
    /\ Running /\ Top.fn = "params"
    /\ in.tk = "term" => Top.term # "None"
    /\ in.tk \notin {"term", "other", "eof", "lexerr"} => Len(Top.args) < MaxArgs
    /\ LET rec == Top
           tp == IF in.nl THEN pos + 1 ELSE pos
           skip == [Cur EXCEPT !.pos = tp]
           h == [op |-> "param", in |-> in, term |-> rec.term, p0 |-> pos,
                 st0 |-> rec.st, args0 |-> rec.args,
                 table0 |-> scope_lvar(Cur).table,
                 st1 |-> rec.st, ret |-> None]
       IN  IF rec.term # "None" /\ in.tk = "lexerr"
           THEN Apply([Fail(Cur, error_lexer(At(tp))) EXCEPT !.last = h])
           ELSE IF rec.term # "None" /\ in.tk = "term"
           THEN Apply([params_return(get(skip), rec.args) EXCEPT
                          !.last = [h EXCEPT !.ret = Some(rec.args)]])
           ELSE IF in.tk = "lexerr"
           THEN Apply([loc_unwrap(Cur, in.nl \/ rec.args = <<>>, tp) EXCEPT !.last = h])
           ELSE LET r == parse_param(skip, rec.st, rec.args, At(pos), in)
                    h1 == [h EXCEPT !.st1 = r.st]
                IN  IF r.o.status # "running"
                    THEN Apply([r.o EXCEPT !.last = h1])
                    ELSE IF ~r.brk /\ in.comma
                    THEN Apply([SetTop(get(r.o), [rec EXCEPT !.st = r.st, !.args = r.args])
                                   EXCEPT !.last = h1])
                    ELSE LET o2 == IF rec.term # "None"
                                   THEN expect(r.o, in.close, "Expect terminator")
                                   ELSE r.o
                         IN  IF o2.status # "running"
                             THEN Apply([o2 EXCEPT !.last = h1])
                             ELSE Apply([params_return(o2, r.args) EXCEPT
                                            !.last = [h1 EXCEPT !.ret = Some(r.args)]])

\* --------------------------------------------------------------- parse_for
ForVars == UNION {[1..n -> Names] : n \in 1..MaxForVars}

RECURSIVE for_vars(_, _, _, _)
\* acc: the `vars` vector built so far
for_vars(o, ext, names, acc) ==
    IF Len(acc) = Len(names) \/ o.status # "running" THEN [o |-> o, vars |-> acc]
    ELSE LET i == Len(acc) + 1
             o1 == get(IF i > 1 THEN get(o) ELSE o)      \* [`,`] identifier
             r == add_local_var_if_new(o1.scope, ext, names[i])
             o2 == [o1 EXCEPT !.scope = r.scope]
         IN  for_vars(IF r.unreachable THEN Panic(o2) ELSE o2, ext, names,
                      Append(acc, <<r.ret, names[i]>>))

\* the `for` keyword has been consumed; parse_for runs up to its call of
\* parse_expr.  first: what the first token is; tin: what follows the
\* variables
ForEnter(first, names, tin) ==
    /\ Running /\ InBody /\ Len(ctl) < MaxDepth /\ pos + 2 * Len(names) + 1 <= MaxPos
    /\ first # "ok" => names = <<"x">> /\ tin = "ok"
    /\ LET o1 == get(Cur)
           h == [op |-> "for_enter", names |-> names, scope0 |-> scope]
       IN  IF first # "ok"
           THEN Apply([expect_ident(o1, first) EXCEPT !.last = h])
           ELSE LET r == for_vars(o1, extern_context, names, <<>>)
                    o2 == IF r.o.status # "running" THEN r.o
                          ELSE expect(r.o, tin, "Expect In")
                IN  IF o2.status # "running" THEN Apply([o2 EXCEPT !.last = h])
                    ELSE Apply([PushCtl(o2, [Rec("for", "iter") EXCEPT !.vars = r.vars,
                                                                     !.kw = o1.prev_loc,
                                                                     !.old = suppress_do_block,
                                                                     !.loop0 = Len(loop_stack),
                                                                     !.scope0 = Len(scope)])
                                   EXCEPT !.last = h])

\* parse_expr has returned the iterator; parse_for runs up to its call of
\* parse_comp_stmt
ForIter(d) ==
    /\ Running /\ Top.fn = "for" /\ Top.phase = "iter" /\ pos + 2 <= MaxPos
    /\ LET o1 == parse_do(get(Cur), d)
           h == [op |-> "for_iter"]
       IN  IF o1.status # "running" THEN Apply([o1 EXCEPT !.last = h])
           ELSE Apply([SetTop(o1, [Top EXCEPT !.phase = "body", !.loc = o1.prev_loc])
                          EXCEPT !.scope = Append(@, new_for),
                                 !.loop_stack = Append(@, "For"),
                                 !.last = h])

RECURSIVE for_dummies(_, _, _, _)
for_dummies(o, n, i, loc) ==
    IF i = n \/ o.status # "running" THEN o
    ELSE for_dummies(new_param(o, IF i = 0 THEN "_0" ELSE IF i = 1 THEN "_1" ELSE "_2", loc),
                     n, i + 1, loc)

\* parse_comp_stmt has returned the body; parse_for runs to its end
ForExit(e) ==
    /\ Running /\ Top.fn = "for" /\ Top.phase = "body" /\ pos + 1 <= MaxPos
    /\ LET o1 == for_dummies(Cur, Len(Top.vars), 0, Top.loc)
           h == [op |-> "parse_for", vars |-> Top.vars,
                 depth0 |-> Len(loop_stack) - 1, kw_loc |-> Top.kw]
       IN  IF o1.status # "running" THEN Apply([o1 EXCEPT !.last = h])
           ELSE LET lvar == Last(o1.scope).lvar
                    o2 == [o1 EXCEPT !.loop_stack = Front(@), !.scope = Front(@)]
                    loc == merge(Top.loc, o2.prev_loc)
                    o3 == expect(o2, e, "Expect End")
                IN  IF o3.status # "running" THEN Apply([o3 EXCEPT !.last = h])
                    ELSE Apply([PopCtl(o3) EXCEPT !.last =
                            h @@ [node |-> [kind |-> "For", param |-> Top.vars,
                                            lvar |-> lvar,
                                            loc |-> merge(loc, o3.prev_loc)]]])


\* ------------------------------------------------------------- parse_block
\* parse_block is called after a method call; opener is the token at the
\* cursor ("do", "lbrace" or "none" for any other token), bar what follows
\* the opener ("bitor" `|`, "lor" `||`, "none")
BlockEnter(opener, bar) ==
    /\ Running /\ InExpr /\ Len(ctl) < MaxDepth /\ pos + 3 <= MaxPos
    /\ opener = "none" => bar = "none"
    /\ LET o1 == [get(Cur) EXCEPT !.suppress_mul_assign = FALSE]
           old_suppress_mul_flag == suppress_mul_assign
           h == [op |-> "parse_block", opener |-> opener,
                 suppressed |-> suppress_do_block, ret |-> None, pos1 |-> o1.pos]
           opened == (opener = "do" /\ ~o1.suppress_do_block) \/ opener = "lbrace"
       IN  IF ~opened
           THEN Apply([o1 EXCEPT !.suppress_mul_assign = old_suppress_mul_flag,
                                 !.last = h])
           ELSE LET o2 == get(o1)
                    r == [Rec("block", "body") EXCEPT !.flag = (opener = "do"),
                                                      !.old = old_suppress_mul_flag,
                                                      !.loc = o2.prev_loc,
                                                      !.loop0 = Len(loop_stack),
                                                      !.scope0 = Len(scope)]
                    o3 == [o2 EXCEPT !.scope = Append(@, new_block(None)),
                                     !.loop_stack = Append(@, "Block"),
                                     !.last = [op |-> "block_enter"]]
                IN  IF bar = "bitor"
                    THEN Apply(PushCtl(PushCtl(get(o3), [r EXCEPT !.phase = "params"]),
                                       [Rec("params", "params") EXCEPT !.term = "BitOr"]))
                    ELSE Apply(PushCtl(IF bar = "lor" THEN get(o3) ELSE o3, r))

\* the scope stack and the loop stack are popped twice
parse_block_leave_poptwice(o, old_suppress_mul_flag) ==
    [o EXCEPT !.loop_stack = IF Len(@) >= 2 THEN Front(Front(@)) ELSE <<>>,
              !.scope = IF Len(@) >= 2 THEN Front(Front(@)) ELSE <<>>,
              !.suppress_mul_assign = old_suppress_mul_flag]

\* the Block frame stays on the scope stack
parse_block_leave_nopop(o, old_suppress_mul_flag) ==
    [o EXCEPT !.loop_stack = Front(@),
              !.suppress_mul_assign = old_suppress_mul_flag]

\* the flag keeps the value the block body left
parse_block_leave_keepflag(o, old_suppress_mul_flag) ==
    [o EXCEPT !.loop_stack = Front(@), !.scope = Front(@)]

\* the end of parse_block: both stacks are popped and suppress_mul_assign
\* gets the value saved at entry
parse_block_leave(o, old_suppress_mul_flag) ==
    [o EXCEPT !.loop_stack = Front(@), !.scope = Front(@),
              !.suppress_mul_assign = old_suppress_mul_flag]

\* the body has been parsed (parse_begin for `do`, parse_comp_stmt for `{`);
\* e is the token at the cursor where `end` / `}` is expected
BlockExit(e) ==
    /\ Running /\ Top.fn = "block" /\ Top.phase = "body" /\ pos + 1 <= MaxPos
    /\ LET o1 == expect(Cur, e, IF Top.flag THEN "Expect End" ELSE "Expect RBrace")
           h == [op |-> "parse_block", opener |-> IF Top.flag THEN "do" ELSE "lbrace",
                 suppressed |-> FALSE, ret |-> None, pos1 |-> pos]
       IN  IF o1.status # "running" THEN Apply([o1 EXCEPT !.last = h])
           ELSE LET lvar == Last(o1.scope).lvar
                    node == [kind |-> "Lambda", params |-> Top.args, lvar |-> lvar,
                             loc |-> merge(Top.loc, o1.prev_loc)]
                IN  Apply([parse_block_leave(PopCtl(o1), Top.old) EXCEPT
                              !.last = [h EXCEPT !.ret = Some(node)]])

\* ------------------------------------------------- method, class (define.rs)
is_method_context_from(sc, i) ==
    LET stops == {j \in 1..i : sc[j].kind \in {"Method", "Class", "Eval"}}
    IN  stops # {} /\ sc[CHOOSE j \in stops : \A k \in stops : k <= j].kind = "Method"

is_method_context(sc) == is_method_context_from(sc, Len(sc))

\* `def name`: a Method frame and a Top loop marker are pushed, then the
\* parameters are parsed.  p: "paren" `(` follows, "noparen" a parameter
\* follows directly, "none" a terminator follows
DefEnter(p) ==
    /\ Running /\ InBody /\ Len(ctl) < MaxDepth /\ pos + 3 <= MaxPos
    /\ LET o1 == [get_n(Cur, 2) EXCEPT !.scope = Append(@, new_method),
                                       !.loop_stack = Append(@, "Top"),
                                       !.last = [op |-> "def_enter"]]
           r == [Rec("def", "body") EXCEPT !.loc = At(pos)]
       IN  IF p = "none" THEN Apply(PushCtl(get(o1), r))
           ELSE Apply(PushCtl(PushCtl(IF p = "paren" THEN get(o1) ELSE o1,
                                      [r EXCEPT !.phase = "params"]),
                              [Rec("params", "params") EXCEPT
                                  !.term = IF p = "paren" THEN "RParen" ELSE "None"]))

DefExit(e) ==
    /\ Running /\ Top.fn = "def" /\ Top.phase = "body" /\ pos + 1 <= MaxPos
    /\ LET o1 == expect(Cur, e, "Expect End")
           h == [op |-> "parse_def"]
       IN  IF o1.status # "running" THEN Apply([o1 EXCEPT !.last = h])
           ELSE Apply([PopCtl(o1) EXCEPT !.loop_stack = Front(@),
                                         !.scope = Front(@),
                                         !.last = h])

\* `class Name`: rejected in a method body, otherwise a Class frame and a
\* Top loop marker are pushed
ClassEnter ==
    /\ Running /\ InBody /\ Len(ctl) < MaxDepth /\ pos + 2 <= MaxPos
    /\ LET o1 == get(Cur)
           h == [op |-> "class_enter"]
       IN  IF is_method_context(o1.scope)
           THEN Apply([Fail(o1, error_unexpected(o1.prev_loc,
                            "class definition in method body.")) EXCEPT !.last = h])
           ELSE Apply([PushCtl(get(o1), Rec("class", "body")) EXCEPT
                          !.scope = Append(@, new_class(None)),
                          !.loop_stack = Append(@, "Top"),
                          !.last = h])

ClassExit(e) ==
    /\ Running /\ Top.fn = "class" /\ Top.phase = "body" /\ pos + 1 <= MaxPos
    /\ LET o1 == expect(Cur, e, "Expect End")
           h == [op |-> "parse_class"]
       IN  IF o1.status # "running" THEN Apply([o1 EXCEPT !.last = h])
           ELSE Apply([PopCtl(o1) EXCEPT !.loop_stack = Front(@),
                                         !.scope = Front(@),
                                         !.last = h])

\* ------------------------------------------------------ Parser::new, parse
\* the lexer fails on the token that starts the next statement
LexError ==
    /\ Running /\ InBody
    /\ Apply([Fail(Cur, error_lexer(At(pos))) EXCEPT !.last = [op |-> "lex_error"]])

parse_accepts_any(tk) == tk # "lexerr"

\* parse(): Ok only when the token left after the statements is EOF
parse_accepts(tk) == tk = "eof"

\* the top-level parse_comp_stmt has returned: the rest of Parser::new and
\* parse().  tk: the token at the cursor
TopFinish(tk) ==
    /\ Running /\ Top.fn = "top"
    /\ LET h == [op |-> "parse", tk |-> tk, at |-> At(pos), scope0 |-> scope,
                 loop0 |-> loop_stack]
       IN  IF Len(scope) = 0 THEN Apply([Panic(Cur) EXCEPT !.last = h])
           ELSE LET lvar == Last(scope).lvar
                    o1 == [Cur EXCEPT !.scope = Front(@)]
                IN  IF tk = "lexerr"
                    THEN Apply([Fail(o1, error_lexer(At(pos))) EXCEPT !.last = h])
                    ELSE IF parse_accepts(tk)
                    THEN Apply([o1 EXCEPT !.status = "ok",
                                          !.last = h @@ [lvar_collector |-> lvar]])
                    ELSE Apply([Fail(o1, error_unexpected(At(pos),
                                     "Expected end-of-input.")) EXCEPT !.last = h])

TopToks == {"eof", "other", "lexerr"}

\* ---------------------------------------------------------- specification
\* In a whole program the parameter lists are made of required parameters
\* and `...`; SpecParams below explores every kind of parameter.  Likewise
\* break and next are followed by a terminator or by one or two arguments;
\* SpecBreak explores every form of the value.
MainBreakVals == {"term", "one", "two"}
MainParamInputs ==
    { in \in ParamInputs :
        /\ in.tk \in {"term", "ident", "range3", "lexerr"}
        /\ in.name \in Names
        /\ in.form = "req" /\ in.close = "ok" /\ in.d = NoDestruct }

\* a turn of the parameter loop while tokens are left
ParamStepInProgram(in) == pos + 3 <= MaxPos /\ ParamStep(in)

Next ==
    \/ \E n \in Names : Assign(n)
    \/ \E n \in Names : Ident(n)
    \/ \E v \in MainBreakVals : parse_break(v)
    \/ \E v \in MainBreakVals : parse_next(v)
    \/ CallDelegate
    \/ WhileEnter
    \/ \E d \in DoToks : WhileCond(d)
    \/ \E e \in ExpectToks : WhileExit(e)
    \/ \E f \in ExpectToks, ns \in ForVars, t \in ExpectToks : ForEnter(f, ns, t)
    \/ \E d \in DoToks : ForIter(d)
    \/ \E e \in ExpectToks : ForExit(e)
    \/ \E op \in {"do", "lbrace", "none"}, bar \in {"bitor", "lor", "none"} : BlockEnter(op, bar)
    \/ \E e \in ExpectToks : BlockExit(e)
    \/ \E p \in {"paren", "noparen", "none"} : DefEnter(p)
    \/ \E e \in ExpectToks : DefExit(e)
    \/ ClassEnter
    \/ \E e \in ExpectToks : ClassExit(e)
    \/ \E in \in MainParamInputs : ParamStepInProgram(in)
    \/ LexError
    \/ \E tk \in TopToks : TopFinish(tk)

Spec == Init /\ [][Next]_vars


\* A parameter list on its own: the state right after parse_block or a
\* method definition has pushed its frame and called parse_formal_params,
\* with every kind of parameter.  The enclosing frame has bound "x", the
\* first name the list will use.
InitParams ==
    /\ \E t \in {"RParen", "None", "BitOr"} :
        /\ scope = <<[new_eval(None) EXCEPT !.lvar.table = <<"x">>],
                     IF t = "BitOr" THEN new_block(None) ELSE new_method>>
        /\ loop_stack = <<"Top", IF t = "BitOr" THEN "Block" ELSE "Top">>
        /\ ctl = <<Rec("top", "body"),
                   [Rec(IF t = "BitOr" THEN "block" ELSE "def", "params")
                        EXCEPT !.loc = At(1)],
                   [Rec("params", "params") EXCEPT !.term = t]>>
        /\ pos = IF t = "None" THEN 2 ELSE 3
        /\ prev_loc = IF t = "None" THEN At(1) ELSE At(2)
    /\ extern_context = None
    /\ suppress_do_block = FALSE
    /\ suppress_mul_assign = FALSE
    /\ status = "running"
    /\ err = NoErr
    /\ last = [op |-> "new"]
    /\ id_table = None

\* In SpecParams the two names of an input stand for "the next unused name
\* of NameSeq" ("x") and "the first name of the frame again" ("y"); a
\* second "x" in a destructuring group is the unused name after the next.
Named(in) ==
    LET t == scope_lvar(Cur).table
        nth(i) == IF i <= Len(NameSeq) THEN NameSeq[i] ELSE NameSeq[Len(NameSeq)]
        fresh == nth(Len(t) + 1)
        dup == IF t = <<>> THEN fresh ELSE t[1]
        pick(n) == IF n = "x" THEN fresh ELSE dup
        names == in.d.names
    IN  [in EXCEPT !.name = pick(in.name),
                   !.d.names = IF Len(names) = 1 THEN <<pick(names[1])>>
                               ELSE <<fresh, nth(Len(t) + 2)>>]

NextParams ==
    \/ \E in \in ParamInputs : ParamStep(Named(in))

SpecParams == InitParams /\ [][NextParams]_vars


\* ---------------------------------------------------------------- parse_if
\* Node::new_comp_stmt over the statements parsed since the cursor was at
\* `start`: the location given (that of the token at the cursor) merged with
\* the locations of the statements
new_comp_stmt(start, o) ==
    IF o.pos = start THEN At(start) ELSE merge(At(start), o.prev_loc)

\* Node::new_if: the location given, widened by the two branches
new_if(loc, then_, else_) == merge(merge(loc, then_), else_)

\* the `if` keyword has been consumed; parse_if calls parse_if_then, which
\* runs up to its call of parse_expr
IfEnter ==
    /\ Running /\ InBody /\ Len(ctl) <= MaxDepth /\ pos + 4 <= MaxPos
    /\ LET o1 == get(Cur)
       IN  Apply([PushCtl(o1, [Rec("if", "cond") EXCEPT !.loc = o1.prev_loc,
                                                         !.kw = o1.prev_loc])
                     EXCEPT !.last = [op |-> "if_enter"]])

\* parse_then: t is what follows the condition: a terminator, `then`, or
\* another token
parse_then(o, t) ==
    IF t = "term" THEN get(o)
    ELSE expect(o, IF t = "then" THEN "ok" ELSE t, "Expect Then")

ThenToks == {"term", "then", "other"}

\* parse_expr has returned the condition; parse_if_then runs up to its call
\* of parse_comp_stmt for the then-branch
IfThen(t) ==
    /\ Running /\ Top.fn = "if" /\ Top.phase = "cond" /\ pos + 3 <= MaxPos
    /\ LET o1 == parse_then(get(Cur), t)
           h == [op |-> "if_then"]
       IN  IF o1.status # "running" THEN Apply([o1 EXCEPT !.last = h])
           ELSE Apply([SetTop(o1, [Top EXCEPT !.phase = "body", !.part = "then",
                                              !.start = o1.pos])
                          EXCEPT !.last = h])

\* the then-branch is parsed and `elsif` follows: parse_if_then calls itself
IfElsif ==
    /\ Running /\ Top.fn = "if" /\ Top.phase = "body" /\ Top.part = "then"
    /\ Len(ctl) <= MaxDepth /\ pos + 4 <= MaxPos
    /\ LET then_ == new_comp_stmt(Top.start, Cur)
           o1 == get(Cur)
           o2 == SetTop(o1, [Top EXCEPT !.phase = "elsif", !.then_ = then_])
       IN  Apply([PushCtl(o2, [Rec("if", "cond") EXCEPT !.loc = o1.prev_loc,
                                                         !.kw = Top.kw,
                                                         !.flag = TRUE])
                     EXCEPT !.last = [op |-> "if_elsif"]])

\* the then-branch is parsed and `else` follows: parse_if_then runs up to
\* its call of parse_comp_stmt for the else-branch
IfElse ==
    /\ Running /\ Top.fn = "if" /\ Top.phase = "body" /\ Top.part = "then"
    /\ pos + 2 <= MaxPos
    /\ LET then_ == new_comp_stmt(Top.start, Cur)
           o1 == get(Cur)
       IN  Apply([SetTop(o1, [Top EXCEPT !.part = "else", !.then_ = then_,
                                         !.start = o1.pos])
                     EXCEPT !.last = [op |-> "if_else"]])

\* parse_if_then returns through its recursive calls: the node of the
\* innermost call is the else-branch of the call around it.  Gives the index
\* in c of the outermost call with the location of its node.
RECURSIVE if_then_return(_, _, _)
if_then_return(c, i, else_) ==
    LET node == new_if(c[i].loc, c[i].then_, else_)
    IN  IF c[i].flag THEN if_then_return(c, i - 1, node)
        ELSE [i |-> i, loc |-> node]

\* the last branch is parsed and neither `elsif` nor `else` follows:
\* parse_if_then returns its node and parse_if expects `end`
IfExit(e) ==
    /\ Running /\ Top.fn = "if" /\ Top.phase = "body" /\ pos + 1 <= MaxPos
    /\ LET body == new_comp_stmt(Top.start, Cur)
           then_ == IF Top.part = "then" THEN body ELSE Top.then_
           else_ == IF Top.part = "then" THEN new_comp_stmt(pos, Cur) ELSE body
           c == [ctl EXCEPT ![Len(ctl)].then_ = then_]
           r == if_then_return(c, Len(c), else_)
           o1 == expect(Cur, e, "Expect End")
           h == [op |-> "parse_if", kw_loc |-> Top.kw, elsifs |-> Len(ctl) - r.i,
                 else_stmts |-> IF Top.part = "else" THEN pos - Top.start ELSE -1]
       IN  IF o1.status # "running" THEN Apply([o1 EXCEPT !.last = h])
           ELSE Apply([o1 EXCEPT !.ctl = SubSeq(ctl, 1, r.i - 1),
                                 !.last = h @@ [node |-> [kind |-> "If", loc |-> r.loc]]])

\* A call of parse_block on its own: the expression parser calls it with
\* the flags as the expression around the call has set them.
InitBlock ==
    /\ \E m \in BOOLEAN :
          /\ scope = <<new_eval(None)>> \o (IF m THEN <<new_method>> ELSE <<>>)
          /\ loop_stack = <<"Top">> \o (IF m THEN <<"Top">> ELSE <<>>)
          /\ ctl = <<Rec("top", "body")>> \o (IF m THEN <<Rec("def", "body")>> ELSE <<>>)
    /\ extern_context = None
    /\ pos = 0
    /\ prev_loc = Loc(0, 0)
    /\ suppress_do_block \in BOOLEAN
    /\ suppress_mul_assign \in BOOLEAN
    /\ status = "running"
    /\ err = NoErr
    /\ last = [op |-> "new"]
    /\ id_table = None

NextBlock ==
    \/ \E op \in {"do", "lbrace", "none"}, bar \in {"bitor", "lor", "none"} : BlockEnter(op, bar)
    \/ \E e \in ExpectToks : BlockExit(e)
    \/ \E in \in MainParamInputs : ParamStepInProgram(in)
    \/ \E n \in Names : Assign(n)

SpecBlock == InitBlock /\ [][NextBlock]_vars

\* ------------------------------------------------------ parse_op_definable
\* the lexer's punctuators: source text to Punct variant
lex_punct ==
    [t \in {"+", "-", "*", "/", "%", "<<", ">>", "&", "|", "<=>", "==", "!=",
            "<", "<=", ">", ">=", "===", "=~", "[", "]", "=", "^", "**", "~",
            "!", "!~", "(", ","} |->
        CASE t = "+" -> "Plus" [] t = "-" -> "Minus" [] t = "*" -> "Mul"
          [] t = "/" -> "Div" [] t = "%" -> "Rem" [] t = "<<" -> "Shl"
          [] t = ">>" -> "Shr" [] t = "&" -> "BitAnd" [] t = "|" -> "BitOr"
          [] t = "<=>" -> "Cmp" [] t = "==" -> "Eq" [] t = "!=" -> "Ne"
          [] t = "<" -> "Lt" [] t = "<=" -> "Le" [] t = ">" -> "Gt"
          [] t = ">=" -> "Ge" [] t = "===" -> "TEq" [] t = "=~" -> "Match"
          [] t = "[" -> "LBracket" [] t = "]" -> "RBracket" [] t = "=" -> "Assign"
          [] t = "^" -> "BitXor" [] t = "**" -> "DMul" [] t = "~" -> "BitNot"
          [] t = "!" -> "Not" [] t = "!~" -> "Unmatch" [] t = "(" -> "LParen"
          [] t = "," -> "Comma"]

Puncts == {lex_punct[t] : t \in DOMAIN lex_punct}

\* every punctuator is a method name
op_definable_text_any(punct) ==
    Some(CHOOSE t \in DOMAIN lex_punct : lex_punct[t] = punct)

\* the arms of the match that return a name without looking ahead
op_definable_text(punct) ==
    CASE punct = "Plus" -> Some("+")
      [] punct = "Minus" -> Some("-")
      [] punct = "Mul" -> Some("*")
      [] punct = "Div" -> Some("/")
      [] punct = "Rem" -> Some("%")
      [] punct = "Shl" -> Some("<<")
      [] punct = "Shr" -> Some(">>")
      [] punct = "BitAnd" -> Some("&")
      [] punct = "BitOr" -> Some("|")
      [] punct = "Cmp" -> Some("<=>")
      [] punct = "Eq" -> Some("==")
      [] punct = "Ne" -> Some("!=")
      [] punct = "Lt" -> Some("<")
      [] punct = "Le" -> Some("<=")
      [] punct = "Gt" -> Some(">")
      [] punct = "Ge" -> Some(">=")
      [] punct = "TEq" -> Some("===")
      [] punct = "Match" -> Some("=~")
      [] OTHER -> None

\* a: the token after the punctuator, b: the token after that; both are
\* peeked without skipping line terminators
parse_op_definable(o, punct, a, b) ==
    IF punct = "LBracket"
    THEN IF a = "lexerr" THEN [o |-> Fail(o, error_lexer(At(o.pos))), ret |-> None]
         ELSE IF a = "rbracket"
         THEN LET o1 == get(o)
              IN  IF b = "lexerr"
                  THEN [o |-> Fail(o1, error_lexer(At(o1.pos))), ret |-> None]
                  ELSE IF b = "assign" THEN [o |-> get(o1), ret |-> Some("[]=")]
                  ELSE [o |-> o1, ret |-> Some("[]")]
         ELSE [o |-> Fail(o, error_unexpected(At(o.pos), "Invalid operator.")),
               ret |-> None]
    ELSE IF is_some(op_definable_text(punct))
         THEN [o |-> o, ret |-> op_definable_text(punct)]
         ELSE [o |-> Fail(o, error_unexpected(o.prev_loc, "Invalid operator.")),
               ret |-> None]

OpLookahead ==
    { la \in [a : {"rbracket", "newline", "other", "eof", "lexerr"},
              b : {"assign", "other", "lexerr"}] :
        la.a # "rbracket" => la.b = "other" }

\* `def` is followed by a punctuator, which has been consumed: the method
\* name is read with parse_op_definable
OpDefinable(punct, la) ==
    /\ Running /\ Top.fn = "def" /\ Top.phase = "name"
    /\ punct # "LBracket" => la = [a |-> "other", b |-> "other"]
    /\ LET r == parse_op_definable(Cur, punct, la.a, la.b)
           h == [op |-> "parse_op_definable", punct |-> punct, la |-> la,
                 p0 |-> pos, ret |-> r.ret]
       IN  Apply([SetTop(r.o, [Top EXCEPT !.phase = "params"]) EXCEPT !.last = h])

\* the state in which the punctuator after `def` has just been consumed
InitOp ==
    /\ scope = <<new_eval(None), new_method>>
    /\ loop_stack = <<"Top", "Top">>
    /\ extern_context = None
    /\ pos \in 2..(MaxPos - 2)
    /\ prev_loc = At(pos - 1)
    /\ suppress_do_block = FALSE
    /\ suppress_mul_assign = FALSE
    /\ ctl = <<Rec("top", "body"), [Rec("def", "name") EXCEPT !.loc = At(pos - 2)]>>
    /\ status = "running"
    /\ err = NoErr
    /\ last = [op |-> "new"]
    /\ id_table = None

NextOp ==
    \/ \E punct \in Puncts, la \in OpLookahead : OpDefinable(punct, la)

SpecOp == InitOp /\ [][NextOp]_vars

\* -------------------------------------------------------------- SourceInfo
\* A source text is a sequence of one-byte characters; byte positions count
\* from 0 as in the code.
Chars == {"a", "\n"}

\* &code[a..=b]
slice(code, a, b) == SubSeq(code, a + 1, b + 1)

\* console::measure_text_width on ASCII text: a line feed has no width
measure_text_width(s) == Cardinality({i \in 1..Len(s) : s[i] # "\n"})

repeat(ch, n) == [i \in 1..n |-> ch]

Line_new(line_no, top, end) == [line_no |-> line_no, top |-> top, end |-> end]

get_next_char(code, p) == IF p < Len(code) THEN Some(code[p + 1]) ELSE None

\* the Line of every line feed of code at position p or later; idx line
\* feeds have been seen and the current line began at line_top
RECURSIVE scan_lines(_, _, _, _)
scan_lines(code, p, idx, line_top) ==
    IF p >= Len(code) THEN <<>>
    ELSE IF code[p + 1] = "\n"
         THEN <<Line_new(idx + 1, line_top, p)>> \o scan_lines(code, p + 1, idx + 1, p + 1)
         ELSE scan_lines(code, p + 1, idx, line_top)

get_lines(src, loc) ==
    LET code == Append(src, " ")
        code_len == Len(code)
        all == scan_lines(code, 0, 0, 0)
        line_top == IF all = <<>> THEN 0 ELSE Last(all).end + 1
        lines == SelectSeq(all, LAMBDA l : l.end >= loc[1] /\ l.top <= loc[2])
    IN  IF line_top < code_len /\ loc[1] <= code_len - 1 /\ line_top <= loc[2]
        THEN Append(lines, Line_new(Len(lines) + 1, line_top, code_len - 1))
        ELSE lines

\* the text of one line and its underline
location_line(src, line, loc) ==
    LET code == Append(src, " ")
        start == line.top
        end == IF get_next_char(src, line.end) = Some("\n") /\ line.end > 0
               THEN line.end - 1 ELSE line.end
        lead == IF loc[1] <= line.top THEN 0
                ELSE measure_text_width(slice(code, start, loc[1] - 1))
        range_start == Max2(loc[1], line.top)
        range_end == Min2(loc[2], line.end)
        length == measure_text_width(slice(code, range_start, range_end))
    IN  slice(code, start, end) \o <<"\n">> \o repeat(" ", lead)
            \o repeat("^", length) \o <<"\n">>

RECURSIVE location_lines(_, _, _, _)
location_lines(src, lines, i, loc) ==
    IF i > Len(lines) THEN <<>>
    ELSE location_line(src, lines[i], loc) \o location_lines(src, lines, i + 1, loc)

\* the text is a sequence of characters; the path and the line number are
\* one element each
get_location(path, src, loc) ==
    IF src = <<>> THEN <<"(internal)">>
    ELSE LET code == Append(src, " ")
             lines == get_lines(src, loc)
         IN  IF lines # <<>>
             THEN <<path, ":", ToString(lines[1].line_no), "\n">>
                      \o location_lines(src, lines, 1, loc)
             ELSE LET lead == measure_text_width(slice(code, 0, loc[1] - 1))
                      length == measure_text_width(slice(code, loc[1], loc[2] - 1))
                      is_cr == loc[2] >= Len(code)
                                  \/ get_next_char(src, loc[2]) = Some("\n")
                  IN  <<"NOT FOUND", "\n", path, ":", ToString(1), "\n">>
                          \o slice(code, 0, IF is_cr THEN loc[2] - 1 ELSE loc[2])
                          \o repeat(" ", lead) \o repeat("^", length + 1) \o <<"\n">>

Sources == UNION {[1..n -> Chars] : n \in 1..MaxCode}

\* parse() has returned a ParseErr for a source text; its location lies in
\* the text
InitLoc ==
    /\ \E src \in Sources, a, b \in 0..(MaxCode - 1) :
          /\ a <= b /\ b < Len(src)
          /\ err = [kind |-> "SyntaxError", msg |-> "", loc |-> Loc(a, b)]
          /\ last = [op |-> "source_info", path |-> "path", code |-> src]
    /\ scope = <<>>
    /\ loop_stack = <<"Top">>
    /\ extern_context = None
    /\ pos = 0
    /\ prev_loc = Loc(0, 0)
    /\ suppress_do_block = FALSE
    /\ suppress_mul_assign = FALSE
    /\ ctl = <<Rec("top", "body")>>
    /\ status = "err"
    /\ id_table = None

\* err.source_info.get_location(&err.loc)
GetLocation ==
    /\ last.op = "source_info"
    /\ Apply([Cur EXCEPT !.last =
            [op |-> "get_location", path |-> last.path, code |-> last.code,
             ret |-> get_location(last.path, last.code, err.loc)]])

NextLoc ==
    \/ GetLocation

SpecLoc == InitLoc /\ [][NextLoc]_vars

\* --------------------------------------------------------- IdentifierTable
MaxIds == 3          \* names interned after construction

\* the names IdentifierTable::new binds, in the order of their ids 0..35
Preload ==
    <<"<null>", "initialize", "Object", "new", "name", "+", "-", "*", "**", "<<",
      "%", "==", "!=", ">", ">=", "/", "<", "<=", "<=>", "===", "/enum", "[]",
      "[]=", "to_s", ">>", "/alias_method", "method_missing", "each", "map",
      "/name", "...", "/main", "|", "&", "^", "-@">>

TableLen == 40

\* rev_table: a function from names to ids; table: the names by id, the
\* name of id i at index i + 1
set_ident_id(t, name, id) ==
    [rev_table |-> [n \in DOMAIN t.rev_table \cup {name} |->
                        IF n = name THEN id ELSE t.rev_table[n]],
     table |-> [t.table EXCEPT ![id + 1] = name]]

RECURSIVE preload_from(_, _)
preload_from(t, i) ==
    IF i > Len(Preload) THEN t
    ELSE preload_from(set_ident_id(t, Preload[i], i - 1), i + 1)

IdentifierTable_new ==
    preload_from([rev_table |-> <<>>, table |-> [i \in 1..TableLen |-> ""]], 1)

\* a name that is absent gets a new id even when it is present
get_ident_id_fresh(t, name) ==
    LET id == Len(t.table)
    IN  [t |-> [rev_table |-> [n \in DOMAIN t.rev_table \cup {name} |->
                                   IF n = name THEN id ELSE t.rev_table[n]],
                table |-> Append(t.table, name)],
         id |-> id]

\* `self.table.len() as u32`: the length stays far below 2^32
get_ident_id(t, name) ==
    IF name \in DOMAIN t.rev_table
    THEN [t |-> t, id |-> t.rev_table[name]]
    ELSE LET id == Len(t.table)
         IN  [t |-> [rev_table |-> [n \in DOMAIN t.rev_table \cup {name} |->
                                        IF n = name THEN id ELSE t.rev_table[n]],
                     table |-> Append(t.table, name)],
              id |-> id]

get_name(t, id) == t.table[id + 1]

IdNames == {"initialize", "[]", "each", "foo", "bar", "baz", ""}

InitId ==
    /\ id_table = None
    /\ scope = <<>>
    /\ loop_stack = <<>>
    /\ extern_context = None
    /\ pos = 0
    /\ prev_loc = Loc(0, 0)
    /\ suppress_do_block = FALSE
    /\ suppress_mul_assign = FALSE
    /\ ctl = <<>>
    /\ status = "running"
    /\ err = NoErr
    /\ last = [op |-> "none"]

\* IdentifierTable::new.  IdentId::from(0) calls NonZeroU32::new_unchecked(0),
\* which is undefined: the build either stores the id 0 or, with the checks
\* of unsafe preconditions compiled in, aborts
IdentifierTableNew(ub) ==
    /\ id_table = None /\ status = "running"
    /\ last' = [op |-> "IdentifierTable::new", seen |-> <<>>]
    /\ IF ub = "zero"
       THEN id_table' = Some(IdentifierTable_new) /\ status' = status
       ELSE id_table' = id_table /\ status' = "panic"
    /\ UNCHANGED <<scope, loop_stack, extern_context, prev_loc, pos,
                   suppress_do_block, suppress_mul_assign, ctl, err>>

\* get_ident_id(name), followed by get_name of the id returned; seen holds
\* the id every name asked so far was given first
GetIdentId(name) ==
    /\ is_some(id_table) /\ status = "running"
    /\ name \notin DOMAIN id_table[1].rev_table =>
          Len(id_table[1].table) < TableLen + MaxIds
    /\ LET r == get_ident_id(id_table[1], name)
       IN  /\ id_table' = Some(r.t)
           /\ last' = [op |-> "get_ident_id", name |-> name, id |-> r.id,
                       got |-> get_name(r.t, r.id), seen0 |-> last.seen,
                       seen |-> IF name \in DOMAIN last.seen THEN last.seen
                                ELSE [n \in DOMAIN last.seen \cup {name} |->
                                          IF n = name THEN r.id ELSE last.seen[n]]]
    /\ UNCHANGED <<scope, loop_stack, extern_context, prev_loc, pos,
                   suppress_do_block, suppress_mul_assign, ctl, status, err>>

NextId ==
    \/ \E ub \in {"zero", "abort"} : IdentifierTableNew(ub)
    \/ \E name \in IdNames : GetIdentId(name)

SpecId == InitId /\ [][NextId]_vars

\* a program of loops with break, next and return in their conditions and
\* bodies
NextBreak ==
    \/ \E v \in BreakVals : parse_break(v)
    \/ \E v \in BreakVals : parse_next(v)
    \/ \E v \in BreakVals : parse_return(v)
    \/ WhileEnter
    \/ \E d \in DoToks : WhileCond(d)
    \/ \E e \in ExpectToks : WhileExit(e)
    \/ \E tk \in TopToks : TopFinish(tk)

SpecBreak == Init /\ [][NextBreak]_vars

\* a program of `if` constructs and identifiers
NextIf ==
    \/ IfEnter
    \/ \E t \in ThenToks : IfThen(t)
    \/ IfElsif
    \/ IfElse
    \/ \E e \in ExpectToks : IfExit(e)
    \/ \E n \in Names : Ident(n)
    \/ \E tk \in TopToks : TopFinish(tk)

SpecIf == Init /\ [][NextIf]_vars


\* ======================================================================
\* Properties
\* ======================================================================

\* ---------------------------------------------------------------- C1
\* C1: parse_break / parse_next fail with the syntax error "Invalid break" /
\* "Invalid next", located at the keyword, exactly when the innermost loop
\* marker is Top, and go on when it is While, For or Block; so the keyword
\* is an error at top level and directly in a method body, and is accepted
\* in the body of a while, a for and a block.
C1_Invalid ==
    /\ status = "err"
    /\ err = [kind |-> "SyntaxError",
              msg |-> IF last.op = "break" THEN "Invalid break" ELSE "Invalid next",
              loc |-> last.kw_loc]

C2_Declares ==
    LET in == last.in
    IN  IF in.tk = "ident" /\ in.form = "req" /\ last.st0 <= PostReq THEN <<in.name>>
        ELSE IF in.tk = "ident" /\ in.form = "opt" /\ last.st0 <= Optional THEN <<in.name>>
        ELSE IF in.tk = "ident" /\ in.form = "kw" /\ last.st0 <= KeyWord THEN <<in.name>>
        ELSE IF in.tk = "mul" /\ in.sub = "ok" /\ last.st0 < Rest THEN <<in.name>>
        ELSE IF in.tk = "lparen" /\ in.d.first = "ident" THEN in.d.names
        ELSE <<>>

\* one of them is already in the innermost frame
C2_Duplicate ==
    /\ last.op = "param"
    /\ \E i \in 1..Len(C2_Declares) :
          C2_Declares[i] \in Range(last.table0) \cup {C2_Declares[j] : j \in 1..(i - 1)}

\* no name the parameter declares (keyword-rest and block names included)
\* is in the innermost frame
C2_AllNew ==
    /\ last.op = "param"
    /\ last.in.tk \in {"ident", "mul", "dmul", "bitand"} =>
          last.in.name \notin Range(last.table0)
    /\ last.in.tk = "range3" => "..." \notin Range(last.table0)
    /\ last.in.tk = "lparen" =>
          \A i \in 1..Len(last.in.d.names) :
              last.in.d.names[i] \notin
                  Range(last.table0) \cup {last.in.d.names[j] : j \in 1..(i - 1)}

\* C2 as stated: declaring a parameter whose name is already in the
\* innermost frame fails with error kind DuplicateParam at the parameter's
\* location.
C2_DuplicateParamKind ==
    C2_Duplicate =>
        /\ status = "err"
        /\ err.kind = "DuplicateParam"
        /\ err.loc[1] >= last.p0 /\ err.loc[2] <= prev_loc[2]

\* C2 (amended): declaring a parameter whose name is already in the
\* innermost frame fails with a syntax error (kind SyntaxError, message
\* "Duplicated argument name.") whose location lies within the tokens of
\* that parameter, a line terminator directly before it included; only the
\* innermost frame is consulted: a name bound in an enclosing frame, or in
\* no frame, is declared without this error.
C2_DuplicateIsSyntaxError ==
    /\ C2_Duplicate =>
          /\ status = "err"
          /\ err.kind = "SyntaxError" /\ err.msg = "Duplicated argument name."
          /\ err.loc[1] >= last.p0 /\ err.loc[2] <= prev_loc[2]
    /\ C2_AllNew => ~(status = "err" /\ err.msg = "Duplicated argument name.")

\* a second parameter repeats the name of the first
C2_Witness ==
    /\ C2_Duplicate /\ status = "err"
    /\ last.args0 # <<>> /\ last.in.tk = "ident"

\* ---------------------------------------------------------------- C3
C3_OrderMsgs ==
    {"Optional parameter is not allowed in ths position.",
     "Rest parameter is not allowed in ths position.",
     "Required parameter is not allowed in ths position.",
     "Keyword parameter is not allowed in ths position.",
     "Keyword rest parameter is not allowed in ths position."}

\* the parameter parsed last needs a move backward in the order
C3_Backward ==
    LET in == last.in
    IN  \/ in.tk = "ident" /\ in.form = "opt" /\ last.st0 \in {Rest, PostReq, KeyWord, KWRest}
        \/ in.tk = "mul" /\ last.st0 >= Rest
        \/ in.tk = "ident" /\ in.form = "req" /\ last.st0 \in {KeyWord, KWRest}
        \/ in.tk = "ident" /\ in.form = "kw" /\ last.st0 = KWRest
        \/ in.tk = "dmul" /\ in.sub = "ok" /\ last.st0 = KWRest

\* C3: in one call of parse_formal_params the ordering state never
\* decreases; a parameter that needs a backward move (optional after Rest or
\* later, rest at Rest or later, required after KeyWord or KWRest, keyword
\* after KWRest, a second keyword-rest) is rejected with a syntax error; a
\* required parameter after a keyword one is rejected, and required,
\* keyword, keyword-rest in that order is accepted.
C3_OrderNeverDecreases ==
    last.op = "param" =>
        /\ last.st1 >= last.st0
        /\ status = "running" /\ Top.fn = "params" => Top.st = last.st1
        /\ C3_Backward =>
              /\ status = "err" /\ err.kind = "SyntaxError" /\ err.msg \in C3_OrderMsgs
              /\ last.ret = None
        /\ (/\ last.args0 = <<"req_param", "keyword">>
            /\ last.in.tk = "dmul" /\ last.in.sub = "ok"
            /\ last.in.name \notin Range(last.table0)
            /\ last.in.comma \/ last.term = "None" \/ last.in.close = "ok")
           => status = "running" /\ last.st1 = KWRest

\* a required parameter after a keyword parameter is rejected
C3_Witness ==
    /\ last.op = "param" /\ last.args0 = <<"keyword">>
    /\ last.in.tk = "ident" /\ last.in.form = "req"
    /\ status = "err"


\* ---------------------------------------------------------------- C4
\* the frames that bind the name
C4_Binders(sc, id) == {i \in 1..Len(sc) : id \in Range(sc[i].lvar.table)}

\* what the walk must return: with i the innermost frame that binds the
\* name, Some(number of Block frames above i) when every frame above i is a
\* Block or For frame; None when a Method, Class or Eval frame that does not
\* bind the name is met first, or no frame binds it
C4_Expected(sc, id) ==
    LET opaque == {j \in 1..Len(sc) : sc[j].kind \notin {"Block", "For"}
                                      /\ j \notin C4_Binders(sc, id)}
    IN  IF C4_Binders(sc, id) = {} THEN None
        ELSE LET i == CHOOSE b \in C4_Binders(sc, id) : \A c \in C4_Binders(sc, id) : c <= b
             IN  IF \E j \in opaque : j > i THEN None
                 ELSE Some(Cardinality({j \in (i + 1)..Len(sc) : sc[j].kind = "Block"}))

\* C4: is_local_var returns Some(d), d the number of Block frames crossed
\* before the first frame, from the innermost outward, that contains the
\* name; For frames add nothing to d; the result is None as soon as a Method,
\* Class or Eval frame without the name is reached, whatever the frames
\* further out bind.
C4_ResolveDepth ==
    /\ \A n \in Names : is_local_var(scope, extern_context, n) = C4_Expected(scope, n)
    /\ last.op = "is_local_var" => last.ret = C4_Expected(scope, last.name)

\* the name is bound further out, behind a method frame that lacks it
C4_Witness ==
    /\ last.op = "is_local_var" /\ last.ret = None
    /\ C4_Binders(scope, last.name) # {}

\* ---------------------------------------------------------------- C5
C5_OneSlotPerName ==
    \A i \in 1..Len(scope) :
        \A a, b \in 1..Len(scope[i].lvar.table) :
            scope[i].lvar.table[a] = scope[i].lvar.table[b] => a = b

\* the step is a call of add_local_var_if_new by an assignment
C5_AssignStep == last'.op = "add_local_var_if_new" /\ pos' # pos

\* C5: add_local_var_if_new with a name that already resolves never errors
\* and leaves every frame's collector unchanged; a frame never holds two
\* slots for one name.
C5_RedeclareIsIdempotent ==
    /\ []C5_OneSlotPerName
    /\ [][C5_AssignStep /\ is_some(is_local_var(scope, extern_context, last'.name))
            => scope' = scope /\ status' = "running"]_vars

\* the same variable assigned twice in one frame
C5_Witness ==
    /\ last.op = "add_local_var_if_new" /\ is_some(last.found)
    /\ status = "running"
    /\ last.name \in Range(Last(scope).lvar.table)

\* ---------------------------------------------------------------- C6
C6_Resolves(sc, n) == is_some(is_local_var(sc, extern_context, n))

\* frame k of sc2 is frame k of sc1 with the names `new` added, every other
\* frame is unchanged
C6_AddedTo(sc1, sc2, k, new) ==
    /\ Len(sc2) = Len(sc1)
    /\ \A i \in 1..Len(sc1) : i # k => sc2[i] = sc1[i]
    /\ new # {} =>
          /\ k > 0
          /\ sc2[k].kind = sc1[k].kind
          /\ Range(sc2[k].lvar.table) = Range(sc1[k].lvar.table) \cup new
          /\ Len(sc2[k].lvar.table) = Len(sc1[k].lvar.table) + Cardinality(new)
          /\ SubSeq(sc2[k].lvar.table, 1, Len(sc1[k].lvar.table)) = sc1[k].lvar.table
    /\ new = {} => sc2 = sc1

C6_InnermostNonFor(sc) ==
    IF \E i \in 1..Len(sc) : sc[i].kind # "For"
    THEN CHOOSE i \in 1..Len(sc) : sc[i].kind # "For" /\ \A j \in (i + 1)..Len(sc) : sc[j].kind = "For"
    ELSE 0

\* C6: a name that does not resolve is inserted into the innermost frame
\* whose kind is not For and into no other frame; the loop variables of a
\* `for` that do not resolve get their slot there and those that resolve get
\* none; every name that resolves in a for body still resolves when the For
\* frame has been popped.
C6_ForDeclaresInEnclosingFrame ==
    /\ [][C5_AssignStep /\ ~C6_Resolves(scope, last'.name)
            => C6_AddedTo(scope, scope', C6_InnermostNonFor(scope), {last'.name})]_vars
    /\ [][last'.op = "for_enter" /\ pos' # pos /\ status' = "running"
            => /\ C6_AddedTo(scope, scope', C6_InnermostNonFor(scope),
                             {n \in Range(last'.names) : ~C6_Resolves(scope, n)})
               /\ \A n \in Range(last'.names) : C6_Resolves(scope', n)]_vars
    /\ [][last'.op = "parse_for" /\ pos' # pos /\ status' = "running"
            => /\ Len(scope') = Len(scope) - 1
               /\ \A n \in Names : C6_Resolves(scope, n) => C6_Resolves(scope', n)
               /\ \A v \in Range(last'.vars) : C6_Resolves(scope', v[2])]_vars

\* a variable first assigned in a for body is in the enclosing frame after
\* the `for` has been parsed
C6_Witness ==
    /\ last.op = "parse_for" /\ status = "running" /\ "node" \in DOMAIN last
    /\ Len(scope) = 1
    /\ \E n \in Names : /\ n \in Range(scope[1].lvar.table)
                        /\ n \notin {v[2] : v \in Range(last.vars)}
                        /\ scope[1].kind = "Eval"


\* ---------------------------------------------------------------- C7
C7_Methods == {i \in 1..Len(scope) : scope[i].kind = "Method"}

\* the first Method frame from the innermost outward declared `...`
C7_MethodDelegates ==
    /\ C7_Methods # {}
    /\ is_some(scope[CHOOSE i \in C7_Methods : \A j \in C7_Methods : j <= i]
                   .lvar.delegate_param)

\* C7: check_delegate succeeds if and only if the first Method frame met
\* from the innermost frame outward declared a delegate parameter; otherwise,
\* also when there is no Method frame, it fails with a syntax error located
\* at the token consumed last.
C7_DelegateNeedsDeclaringMethod ==
    last.op = "check_delegate" =>
        /\ status \in {"running", "err"}
        /\ status = "running" <=> C7_MethodDelegates
        /\ status = "err" =>
              /\ err = [kind |-> "SyntaxError", msg |-> "Unexpected ...", loc |-> last.at]
              /\ prev_loc = last.at

\* forwarding in a block inside a method that declared `...`
C7_Witness ==
    /\ last.op = "check_delegate" /\ status = "running"
    /\ Last(scope).kind = "Block"

\* ---------------------------------------------------------------- C8
C8_Final == {"delegate", "block"}

\* the parameter parsed last is a delegate or block parameter that is
\* admitted and declared
C8_ParsedFinal ==
    /\ last.op = "param"
    /\ \/ last.in.tk = "range3" /\ last.st0 = Required /\ "..." \notin Range(last.table0)
       \/ last.in.tk = "bitand" /\ last.in.sub = "ok"
                                /\ last.in.name \notin Range(last.table0)

\* C8: after a delegate or block parameter no further parameter is parsed:
\* it is the last element of the list returned, and with a terminator the
\* next token must be the terminator or the call fails; a delegate parameter
\* is accepted only in ordering state Required and otherwise rejected with a
\* syntax error.
C8_DelegateAndBlockAreLast ==
    /\ \A i \in 1..Len(ctl) :
          ctl[i].fn = "params" => \A j \in 1..Len(ctl[i].args) : ctl[i].args[j] \notin C8_Final
    /\ \A i \in 1..Len(ctl) :
          \A j \in 1..(Len(ctl[i].args) - 1) : ctl[i].args[j] \notin C8_Final
    /\ last.op = "param" /\ last.ret # None =>
          \A j \in 1..(Len(last.ret[1]) - 1) : last.ret[1][j] \notin C8_Final
    /\ C8_ParsedFinal =>
          IF last.term = "None" \/ last.in.close = "ok"
          THEN /\ status = "running"
               /\ last.ret = Some(Append(last.args0,
                                 IF last.in.tk = "range3" THEN "delegate" ELSE "block"))
               /\ Top.fn # "params"
          ELSE status = "err" /\ last.ret = None
    /\ last.op = "param" /\ last.in.tk = "range3" /\ last.st0 > Required =>
          /\ status = "err" /\ last.ret = None
          /\ err.kind = "SyntaxError"
          /\ err.msg = "parameter delegate is not allowed in ths position."

\* `...` after a required parameter ends the list
C8_Witness ==
    /\ last.op = "param" /\ last.in.tk = "range3"
    /\ last.ret = Some(<<"req_param", "delegate">>)

\* ---------------------------------------------------------------- C9
\* C9: parse returns Ok only if the token left after the top-level
\* statements is end-of-file; for any other token it returns the syntax
\* error "Expected end-of-input." located at that first unconsumed token,
\* and no ParseResult.
C9_TrailingTokenIsError ==
    last.op = "parse" =>
        /\ status = "ok" <=> last.tk = "eof"
        /\ status = "ok" <=> "lvar_collector" \in DOMAIN last
        /\ last.tk = "other" =>
              /\ status = "err"
              /\ err = [kind |-> "SyntaxError", msg |-> "Expected end-of-input.",
                        loc |-> At(pos)]

\* a token is left after a statement
C9_Witness ==
    /\ last.op = "parse" /\ last.tk = "other" /\ status = "err"
    /\ pos > 0

\* ---------------------------------------------------------------- C10
\* C10: every failure during parsing reaches the caller of parse_program /
\* parse_program_binding as an Err value, none as a panic.
C10_NoPanic == status # "panic"

\* ---------------------------------------------------------------- C11
\* the parameter parsed last is a destructuring group of identifiers
C11_Group ==
    /\ last.op = "param" /\ last.in.tk = "lparen"
    /\ last.in.d.first = "ident" /\ last.in.d.end # "comma_lparen"

C12_LoopNodeSpansConstruct ==
    last.op \in {"parse_while", "parse_for"} /\ "node" \in DOMAIN last =>
        last.node.loc = Loc(last.kw_loc[1], prev_loc[2])

\* ---------------------------------------------------------------- C13
\* C13: the node parse_if returns for if / elsif / else / end has a location
\* that ends at the matching `end` keyword, for any number of elsif
\* branches, with or without an else branch.
C13_IfEndsAtEnd ==
    last.op = "parse_if" /\ "node" \in DOMAIN last =>
        last.node.loc[2] = prev_loc[2]

\* ---------------------------------------------------------------- C14
\* the parse was started by parse_program_binding
C14_Binding == Len(scope) > 0 /\ scope[1].kind = "Block" /\ ctl[1].fn = "top"

\* the name is in no frame above the bottom one, and those are all Block
\* frames
C14_InBlocksOnly(n) ==
    \A i \in 2..Len(scope) :
        scope[i].kind = "Block" /\ n \notin Range(scope[i].lvar.table)

C14_Declared(n) == \E i \in 1..Len(scope) : n \in Range(scope[i].lvar.table)

\* C14: parse_program_binding parses under a bottom Block frame seeded with
\* the caller's collector: a seeded name resolves at depth 0 at top level
\* and at depth k inside k nested blocks; a name that is neither seeded nor
\* declared does not resolve; name resolution is the same with
\* extern_context None and Some.
C14_BindingResolves ==
    C14_Binding =>
        /\ SubSeq(scope[1].lvar.table, 1, Len(ctl[1].vars)) = ctl[1].vars
        /\ \A n \in Names :
              /\ n \in Range(ctl[1].vars) /\ C14_InBlocksOnly(n) =>
                    is_local_var(scope, extern_context, n) = Some(Len(scope) - 1)
              /\ ~C14_Declared(n) => is_local_var(scope, extern_context, n) = None
              /\ is_local_var(scope, None, n) = is_local_var(scope, Some("DummyFrame"), n)
              /\ add_local_var_if_new(scope, None, n)
                    = add_local_var_if_new(scope, Some("DummyFrame"), n)
        /\ last.op = "is_local_var" /\ status = "running" /\ ~C14_Declared(last.name) =>
              last.ret = None

\* a seeded name read inside two nested blocks, with an extern context
C14_Witness ==
    /\ C14_Binding /\ extern_context # None
    /\ last.op = "is_local_var" /\ last.name \in Range(ctl[1].vars)
    /\ Len(scope) = 3 /\ C14_InBlocksOnly(last.name)
    /\ last.ret = Some(2)

\* ---------------------------------------------------------------- C15
C15_Definable ==
    {"+", "-", "*", "/", "%", "<<", ">>", "&", "|", "<=>", "==", "!=", "<", "<=",
     ">", ">=", "===", "=~"}

C15_InvalidOperator ==
    /\ status = "err" /\ last.ret = None
    /\ err.kind = "SyntaxError" /\ err.msg = "Invalid operator."

\* C15: parse_op_definable maps each of + - * / % << >> & | <=> == != < <=
\* > >= === =~ to that text without consuming a token, `[` `]` to "[]" and
\* `[` `]` `=` to "[]=" consuming the lookahead tokens; every other
\* punctuator, and `[` followed by a token other than `]`, gives the syntax
\* error "Invalid operator." and no name.
C15_OpDefinableNames ==
    last.op = "parse_op_definable" =>
        /\ \A t \in C15_Definable :
              last.punct = lex_punct[t] =>
                  status = "running" /\ last.ret = Some(t) /\ pos = last.p0
        /\ last.punct = lex_punct["["] /\ last.la.a = "rbracket" =>
              /\ last.la.b = "assign" =>
                    status = "running" /\ last.ret = Some("[]=") /\ pos = last.p0 + 2
              /\ last.la.b = "other" =>
                    status = "running" /\ last.ret = Some("[]") /\ pos = last.p0 + 1
        /\ last.punct = lex_punct["["] /\ last.la.a \in {"newline", "other", "eof"} =>
              C15_InvalidOperator /\ pos = last.p0
        /\ last.punct \notin {lex_punct[t] : t \in C15_Definable \cup {"["}} =>
              C15_InvalidOperator /\ pos = last.p0

\* `def []=`
C15_Witness ==
    /\ last.op = "parse_op_definable" /\ last.punct = "LBracket"
    /\ last.la = [a |-> "rbracket", b |-> "assign"]
    /\ last.ret = Some("[]=") /\ status = "running"

\* ---------------------------------------------------------------- C16
\* the range lies within one line of the text
C16_InOneLine(src, loc) ==
    \A p \in loc[1]..loc[2] : src[p + 1] # "\n"

\* where the line that holds position p starts, and where it stops (the
\* position of its line feed, or the length of the text)
C16_LineStart(src, p) ==
    LET nls == {q \in 0..(p - 1) : src[q + 1] = "\n"}
    IN  IF nls = {} THEN 0 ELSE (CHOOSE q \in nls : \A r \in nls : r <= q) + 1

C16_LineStop(src, p) ==
    LET nls == {q \in p..(Len(src) - 1) : src[q + 1] = "\n"}
    IN  IF nls = {} THEN Len(src) ELSE CHOOSE q \in nls : \A r \in nls : q <= r

C16_LineNo(src, p) == 1 + Cardinality({q \in 0..(p - 1) : src[q + 1] = "\n"})

\* path:N, the text of the line (tail is what may follow it), the underline
C16_Expected(path, src, loc, tail) ==
    LET top == C16_LineStart(src, loc[1])
    IN  <<path, ":", ToString(C16_LineNo(src, loc[1])), "\n">>
            \o slice(src, top, C16_LineStop(src, loc[1]) - 1) \o tail \o <<"\n">>
            \o repeat(" ", loc[1] - top) \o repeat("^", loc[2] - loc[1] + 1)
            \o <<"\n">>

\* C16: for a non-empty ASCII source and a Loc within one line, get_location
\* returns path:N with N the 1-based number of the line that holds the
\* range, for every line of the source, the last one without a line feed
\* included; then the text of that line (a blank may follow it) and an
\* underline of loc.0 - line start blanks and loc.1 - loc.0 + 1 carets.
C16_LocationOfLine ==
    last.op = "get_location" /\ C16_InOneLine(last.code, err.loc) =>
        last.ret \in {C16_Expected(last.path, last.code, err.loc, <<>>),
                      C16_Expected(last.path, last.code, err.loc, <<" ">>)}

\* ---------------------------------------------------------------- C17
\* C17: on a table built by IdentifierTable::new, for any sequence of
\* get_ident_id calls, the same name always yields the same id, two distinct
\* names never yield the same id, get_name(get_ident_id(n)) = n, every
\* preloaded name keeps its fixed id ("initialize" 1, "[]" 21, "each" 27),
\* and a newly interned name gets an id of 40 or more.
C17_InternIsStable ==
    /\ is_some(id_table) =>
          LET t == id_table[1]
          IN  /\ \A n \in DOMAIN t.rev_table : get_name(t, t.rev_table[n]) = n
              /\ \A n, m \in DOMAIN t.rev_table :
                    t.rev_table[n] = t.rev_table[m] => n = m
              /\ \A i \in 1..Len(Preload) : t.rev_table[Preload[i]] = i - 1
              /\ \A n \in DOMAIN last.seen : t.rev_table[n] = last.seen[n]
    /\ last.op = "get_ident_id" =>
          /\ last.name \in DOMAIN last.seen0 => last.id = last.seen0[last.name]
          /\ \A m \in DOMAIN last.seen0 : m # last.name => last.seen0[m] # last.id
          /\ last.got = last.name
          /\ last.name = "initialize" => last.id = 1
          /\ last.name = "[]" => last.id = 21
          /\ last.name = "each" => last.id = 27
          /\ last.name \notin Range(Preload) => last.id >= 40

\* a name interned second is looked up again
C17_Witness ==
    /\ last.op = "get_ident_id" /\ last.name = "foo"
    /\ last.name \in DOMAIN last.seen0 /\ last.id = 41
    /\ "each" \in DOMAIN last.seen0

\* ---------------------------------------------------------------- C18
\* the procedures that push a loop marker or a scope frame
C18_Pushing == {i \in 1..Len(ctl) : ctl[i].fn \in {"while", "for", "block", "def", "class"}}

\* C18: when parsing fails inside parse_while, parse_for or parse_block, the
\* loop marker and the scope frame it pushed are popped before the error is
\* returned: at the error exit the loop stack and the scope stack have the
\* depth they had when the procedure was entered.
C18_ErrorExitBalanced ==
    status = "err" /\ C18_Pushing # {} =>
        LET k == CHOOSE i \in C18_Pushing : \A j \in C18_Pushing : j <= i
        IN  ctl[k].fn \in {"while", "for", "block"} =>
                /\ Len(loop_stack) = ctl[k].loop0
                /\ Len(scope) = ctl[k].scope0

\* ---------------------------------------------------------------- C19
\* the record at index i is a while / until parsing its condition or a for
\* parsing its iterator expression
C19_InCondition(i) ==
    \/ ctl[i].fn = "while" /\ ctl[i].phase = "cond"
    \/ ctl[i].fn = "for" /\ ctl[i].phase = "iter"

\* C19: while the condition of while / until and the iterator expression of
\* for are parsed, suppress_do_block is true, so parse_block does not take a
\* `do` that follows that expression; once the expression is parsed the flag
\* has the value it had before the construct was entered.
C19_DoSuppressedInCondition ==
    status = "running" =>
        /\ C19_InCondition(Len(ctl)) => suppress_do_block
        /\ \A i \in 1..(Len(ctl) - 1) :
              C19_InCondition(i) /\ ctl[i + 1].fn = "block" => ~ctl[i + 1].flag
        /\ last.op \in {"while_cond", "for_iter"} => suppress_do_block = Top.old

\* ---------------------------------------------------------------- C20
\* the step is a successful return of parse_block
C20_Returns == last'.op = "parse_block" /\ status' = "running" /\ pos' # pos

\* C20: parse_block, on every successful return, leaves the stacks balanced.
\* Without a block opener (no `{`, and no `do` or `do` suppressed) it returns
\* None with scope stack, loop stack and suppress_mul_assign unchanged.
\* Otherwise it pushes one Block frame with an empty collector and one Block
\* loop marker, pops exactly those two after the body, puts the collector of
\* that frame into the lambda node it returns, and returns with the depth of
\* both stacks and suppress_mul_assign as they were at entry.
C20_BlockLeavesStacksBalanced ==
    /\ [][C20_Returns /\ last'.ret = None
            => /\ ~(last'.opener = "lbrace")
               /\ last'.opener = "do" => last'.suppressed
               /\ scope' = scope /\ loop_stack' = loop_stack
               /\ suppress_mul_assign' = suppress_mul_assign]_vars
    /\ [][last'.op = "block_enter" /\ pos' # pos
            => /\ scope' = Append(scope, [kind |-> "Block", lvar |-> LvarCollector_new])
               /\ loop_stack' = Append(loop_stack, "Block")
               /\ \E i \in 1..Len(ctl') :
                     /\ ctl'[i].fn = "block" /\ ctl'[i].old = suppress_mul_assign
                     /\ ctl'[i].loop0 = Len(loop_stack) /\ ctl'[i].scope0 = Len(scope)
                     /\ \A j \in (i + 1)..Len(ctl') : ctl'[j].fn = "params"]_vars
    /\ [][C20_Returns /\ last'.ret # None
            => /\ Top.fn = "block"
               /\ Last(scope).kind = "Block" /\ Last(loop_stack) = "Block"
               /\ scope' = Front(scope) /\ loop_stack' = Front(loop_stack)
               /\ Len(scope') = Top.scope0 /\ Len(loop_stack') = Top.loop0
               /\ last'.ret[1].kind = "Lambda"
               /\ last'.ret[1].lvar = Last(scope).lvar
               /\ suppress_mul_assign' = Top.old]_vars

\* a block with a parameter returns to an expression that had
\* suppress_mul_assign set
C20_Witness ==
    /\ last.op = "parse_block" /\ last.ret # None /\ status = "running"
    /\ suppress_mul_assign
    /\ Len(last.ret[1].lvar.table) > 0
    /\ Len(scope) = 1

\* ---------------------------------------------------------------- C21
\* the innermost frame that holds the name
C21_Binder(sc, name) ==
    CHOOSE i \in 1..Len(sc) :
        /\ name \in Range(sc[i].lvar.table)
        /\ \A j \in (i + 1)..Len(sc) : name \notin Range(sc[j].lvar.table)

\* the slot id of the name: its index in the collector of that frame
C21_Slot(sc, name) ==
    (CHOOSE k \in 1..Len(sc[C21_Binder(sc, name)].lvar.table) :
        sc[C21_Binder(sc, name)].lvar.table[k] = name) - 1

\* the number of Block frames inside the frame that holds the name
C21_Depth(sc, name) ==
    Cardinality({j \in (C21_Binder(sc, name) + 1)..Len(sc) : sc[j].kind = "Block"})

\* C21 as stated: add_local_var_if_new returns the slot id of the variable,
\* the existing one when the name is already bound in the scope chain and the
\* newly allocated one when the name is inserted.
C21_ReturnsSlot ==
    last.op = "add_local_var_if_new" /\ status = "running"
        => last.ret = C21_Slot(scope, last.name)

\* C21 amended: add_local_var_if_new returns the number of Block frames
\* between the innermost frame and the frame that holds the name: the depth
\* is_local_var found when the name was already bound, and 0 when the name is
\* inserted; parse_for stores that number with each loop variable.
C21_ReturnsDepth ==
    /\ [](last.op = "add_local_var_if_new" /\ status = "running"
            => /\ last.ret = C21_Depth(scope, last.name)
               /\ last.found = None => last.ret = 0
               /\ is_some(last.found) => last.ret = last.found[1])
    /\ [][last'.op = "for_enter" /\ status' = "running" /\ pos' # pos
            => \A v \in Range(Last(ctl').vars) : v[1] = C21_Depth(scope', v[2])]_vars

\* a variable of the enclosing frame assigned inside a block: the depth is 1
\* and the slot is 0
C21_Witness ==
    /\ last.op = "add_local_var_if_new" /\ status = "running"
    /\ is_some(last.found) /\ last.ret = 1
    /\ C21_Slot(scope, last.name) = 0

\* ---------------------------------------------------------------- C22
C22_Ops == {"break", "next", "return"}

\* break, next or return has returned its node
C22_Parsed == last.op \in C22_Ops /\ "val" \in DOMAIN last /\ status = "running"

\* the position of the first token after the keyword
C22_After == last.kw_loc[2] + 1

\* C22: the value parsed after break / next / return is a nil literal located
\* at the keyword when the next token is a terminator, `if`, `unless` or
\* another statement-ending token (the token stays unconsumed); the single
\* argument when one is given; and an array literal of all the arguments in
\* order, located from the first argument to the last, when more are given.
C22_BreakValue ==
    C22_Parsed =>
        LET n == BreakArgs(last.in)
        IN  /\ last.loc = last.kw_loc
            /\ last.in \in {"term", "if", "unless", "stmt_end"}
                  => last.val = [kind |-> "Nil", loc |-> last.kw_loc] /\ pos = C22_After
            /\ n = 1 => last.val = [kind |-> "Arg", loc |-> At(C22_After)]
                        /\ pos = C22_After + 1
            /\ n >= 2 => /\ last.val.kind = "Array"
                         /\ last.val.elems
                              = [i \in 1..n |-> [kind |-> "Arg",
                                                 loc |-> At(C22_After + 2 * (i - 1))]]
                         /\ last.val.loc = Loc(C22_After, C22_After + 2 * (n - 1))
                         /\ pos = C22_After + 2 * n - 1

\* `break a, b, c` inside a loop
C22_Witness ==
    /\ C22_Parsed /\ last.op = "break" /\ last.in = "three"
    /\ last.val.kind = "Array" /\ Len(last.val.elems) = 3
    /\ last.val.loc[1] < last.val.loc[2]

\* ---------------------------------------------------------------- C23
\* the parameter parsed last is a destructuring group that holds a nested
\* group, as in `(x,(y,z))`
C23_Nested ==
    /\ last.op = "param" /\ last.in.tk = "lparen"
    /\ last.in.d.first = "ident" /\ last.in.d.end = "comma_lparen"

\* C23: on meeting `(` inside a destructuring group parse_destruct_param
\* recurses and declares the identifiers of the nested group, so a parameter
\* list with a nested group of unused names is accepted.
C23_NestedGroupAccepted ==
    C23_Nested /\ C2_AllNew
        /\ (last.in.comma \/ last.term = "None" \/ last.in.close = "ok")
        => status = "running"

\* ---------------------------------------------------------------- C24
\* the innermost loop marker that is not Block; "Top" when there is none
C24_NearestNonBlock(ls) ==
    LET nb == {i \in 1..Len(ls) : ls[i] # "Block"}
    IN  IF nb = {} THEN "Top" ELSE ls[CHOOSE i \in nb : \A j \in nb : j <= i]

C24_Keyword == last.op \in {"break", "next"}

C25_AtTopLevel == status = "running" /\ Len(ctl) = 1

\* t1 begins with t0
C25_Extends(t0, t1) == Len(t0) <= Len(t1) /\ SubSeq(t1, 1, Len(t0)) = t0

\* C25: whenever the top-level statement sequence has parsed its statements
\* the scope stack holds the one frame the parser was constructed with and
\* the loop stack is [Top]; the collector in ParseResult is the collector of
\* that frame, never the collector of a frame pushed for a block, a for or a
\* method.
C25_TopLevelBalanced ==
    /\ [](C25_AtTopLevel => Len(scope) = 1 /\ loop_stack = <<"Top">>)
    /\ [][C25_AtTopLevel /\ C25_AtTopLevel'
            => /\ scope'[1].kind = scope[1].kind
               /\ C25_Extends(scope[1].lvar.table, scope'[1].lvar.table)]_vars
    /\ [](status = "ok"
            => /\ last.op = "parse"
               /\ Len(last.scope0) = 1 /\ last.loop0 = <<"Top">>
               /\ last.lvar_collector = last.scope0[1].lvar
               /\ last.scope0[1].kind \in {"Eval", "Block"}
               /\ C25_Extends(ctl[1].vars, last.lvar_collector.table))

\* a block that assigns a variable has returned to the top level: its frame
\* is gone and the variable is not in the outermost collector
C25_Witness ==
    /\ C25_AtTopLevel /\ last.op = "parse_block" /\ is_some(last.ret)
    /\ last.ret[1].lvar.table # <<>>
    /\ scope[1].kind = "Eval" /\ scope[1].lvar.table = <<>>

\* ---------------------------------------------------------------- C26
\* the procedures whose unwrap / unreachable!() is meant: the pops of the
\* scope stack and the loop stack, scope_mut and add_local_var_if_new
C26_StackOps == {"add_local_var_if_new", "for_enter", "for_iter", "parse_for",
                 "parse_while", "parse_block", "block_enter", "parse",
                 "parse_def", "parse_class"}

\* C26: while a parse runs the scope stack is non-empty with a bottom frame
\* of kind Eval or Block (never For), and the loop stack is non-empty with
\* Top at its bottom; so scope_mut, the pops of both stacks and the
\* unreachable!() at the end of add_local_var_if_new never panic.
C26_StacksNeverEmpty ==
    /\ status = "running" =>
          /\ Len(scope) >= 1 /\ scope[1].kind \in {"Eval", "Block"}
          /\ Len(loop_stack) >= 1 /\ loop_stack[1] = "Top"
          /\ first_non_for(scope, Len(scope)) >= 1
          /\ \A n \in Names :
                ~add_local_var_if_new(scope, extern_context, n).unreachable
    /\ status = "panic" => last.op \notin C26_StackOps

\* an assignment inside a for body that is the first statement of the
\* program: the frames above the bottom frame are all For frames
C26_Witness ==
    /\ status = "running" /\ last.op = "add_local_var_if_new" /\ last.found = None
    /\ Len(scope) >= 2 /\ \A i \in 2..Len(scope) : scope[i].kind = "For"

\* ---------------------------------------------------------------- C27
C27_Destruct == last.op = "param" /\ last.in.tk = "lparen"

\* a closed group of unused identifiers, followed by a comma or by what ends
\* the list
C27_WellFormed ==
    /\ C27_Destruct /\ C2_AllNew
    /\ last.in.d.first = "ident" /\ last.in.d.end \in {"rparen", "comma_rparen"}
    /\ last.in.comma \/ last.term = "None" \/ last.in.close = "ok"

\* C27: a destructuring parameter neither tests nor changes the ordering
\* state of parse_formal_params: it is accepted in every ordering state, also
\* after keyword and keyword-rest parameters, where a plain required
\* parameter is rejected, and the state after it is the state before it.
C27_DestructIgnoresOrder ==
    /\ C27_Destruct =>
          /\ last.st1 = last.st0
          /\ status = "err" => err.msg \notin C3_OrderMsgs
          /\ status = "running" /\ Top.fn = "params" => Top.st = last.st0
    /\ C27_WellFormed =>
          /\ status = "running"
          /\ \/ Top.fn = "params" /\ Top.args = Append(last.args0, "destruct")
             \/ last.ret = Some(Append(last.args0, "destruct"))
    /\ (/\ last.op = "param" /\ last.in.tk = "ident" /\ last.in.form = "req"
        /\ last.st0 \in {KeyWord, KWRest})
          => status = "err" /\ err.msg = "Required parameter is not allowed in ths position."

\* `**k, (a, b),`: a group after a keyword-rest parameter, with more
\* parameters to come
C27_Witness ==
    /\ C27_WellFormed /\ last.st0 = KWRest /\ "kwrest" \in Range(last.args0)
    /\ Len(last.in.d.names) = 2
    /\ status = "running" /\ Top.fn = "params" /\ Top.st = KWRest

====
